---- MODULE Spec2Model ----
(***************************************************************************)
(* SimpleRS: the batch candidate generator (src/batch) and the online      *)
(* ranking pipeline (src/api), modelled from the Python sources.           *)
(*                                                                         *)
(* Conventions of the model                                                *)
(*  - item ids are the integers 1..NItems, standing for the id strings in  *)
(*    their lexicographic order; user ids are 1..NUsers;                   *)
(*  - scores are fixed-point numbers, Unit units to 1.0 (0.1 = 60 units);   *)
(*  - a Python dict {id: score} is the sequence of its <<id, score>> pairs  *)
(*    in insertion order; a Python set has no order of its own, so every   *)
(*    iteration over a set takes its order as an input of the step;        *)
(*  - an exception is a value: a record with raised = TRUE.                *)
(***************************************************************************)
EXTENDS Integers, Sequences, FiniteSets, TLC

\* ------------------------------------------------------------------ bounds
NItems == 3
NUsers == 2
MaxRuleOut == 1
MaxSaves == 2
MaxBuilds == 2
MaxHistory == 2

Items == 1..NItems
UserIds == 1..NUsers

\* fixed-point scale of every score, weight and similarity: 1.0 = 600 units
Unit == 6 * 100
Tenth == Unit \div 10

\* ------------------------------------------------------- configuration
\* batch_scoring of configs/config.yaml as read by config_loader.py.  The
\* yaml file is deployment data: Configs lists the default of the loader and
\* a deployment that weights the "other" pool and switches CF on.
WeightDefault == Tenth
CB_WEIGHT == 0
MIN_SCORE_THRESHOLD == 0
MAX_CANDIDATES_PER_USER == 2
CF_USER_HISTORY_LIMIT == 1
CF_MIN_CO_OCCURRENCE == 2

Configs ==
  { [ source_weights |-> ("global" :> Tenth) @@ ("cluster" :> Tenth) @@ ("local" :> Tenth),
      cf_weight |-> 0 ],
    [ source_weights |-> ("global" :> 3 * Tenth) @@ ("local" :> 2 * Tenth) @@ ("other" :> Unit),
      cf_weight |-> 1 ] }

\* SOURCE_WEIGHTS.get(key, 0.1)
SourceWeight(cfg, key) ==
  IF key \in DOMAIN cfg.source_weights THEN cfg.source_weights[key] ELSE WeightDefault

\* ------------------------------------------------------------- sequences
Range(s) == { s[i] : i \in DOMAIN s }

\* the slice s[-n:] where s[:n] is meant
TakeFromEnd(s, n) == IF Len(s) <= n THEN s ELSE SubSeq(s, Len(s) - n + 1, Len(s))

\* the first n elements: the Python slice s[:n]
Take(s, n) == IF Len(s) <= n THEN s ELSE SubSeq(s, 1, n)

\* the last n elements: the Python slice s[-n:]
LastN(s, n) == IF Len(s) <= n THEN s ELSE SubSeq(s, Len(s) - n + 1, Len(s))

\* every order in which a Python set S can be iterated
Orders(S) ==
  { s \in [1..Cardinality(S) -> S] : \A i, j \in DOMAIN s : i # j => s[i] # s[j] }

RECURSIVE SelectPairs(_, _)
\* [p for p in s if p[1] in keep]
SelectPairs(s, keep) ==
  IF s = <<>> THEN <<>>
  ELSE IF Head(s)[1] \in keep THEN <<Head(s)>> \o SelectPairs(Tail(s), keep)
       ELSE SelectPairs(Tail(s), keep)

\* x placed behind every pair of s whose score is >= the score of x
InsertByScore(x, s) ==
  LET k == Cardinality({ i \in DOMAIN s : s[i][2] >= x[2] })
  IN SubSeq(s, 1, k) \o <<x>> \o SubSeq(s, k + 1, Len(s))

RECURSIVE SortByScoreDesc(_)
\* sorted(pairs, key=lambda x: x[1], reverse=True): stable, pairs of equal
\* score keep the order they had
SortByScoreDesc(s) ==
  IF s = <<>> THEN <<>>
  ELSE InsertByScore(s[Len(s)], SortByScoreDesc(SubSeq(s, 1, Len(s) - 1)))

Ids(pairs) == { pairs[i][1] : i \in DOMAIN pairs }

ScoreIn(pairs, id) ==
  LET i == CHOOSE k \in DOMAIN pairs : pairs[k][1] = id IN pairs[i][2]

SortedByScoreDesc(pairs) ==
  \A i, j \in DOMAIN pairs : i < j => pairs[i][2] >= pairs[j][2]

UniqueIds(pairs) ==
  \A i, j \in DOMAIN pairs : i # j => pairs[i][1] # pairs[j][1]

\* ------------------------------------------------ CF model (cf_utils.py)
\* The module globals item_similarity_matrix and item_id_map_cf.  A matrix
\* is the set of the stored (row index, column index) cells with their
\* values; pandas fills the other cells of a stored row with 0.
NoMatrix == [ built |-> FALSE, sim |-> <<>>, idmap |-> <<>> ]

\* user_interactions tables the build and the scorer are run on:
\* {user id: [item, ...]}, most recent first
InteractionTables ==
  { [ u \in UserIds |-> <<>> ],
    [ u \in UserIds |-> IF u = 1 THEN <<1>> ELSE <<>> ],
    [ u \in UserIds |-> IF u = 1 THEN <<1>> ELSE <<1, 2>> ],
    [ u \in UserIds |-> IF u = 1 THEN <<2, 1>> ELSE <<1, 2>> ] }

\* item_user_sets[item]: the users whose list holds the item
ItemUsers(table, item) == { u \in DOMAIN table : item \in Range(table[u]) }

\* position of the item in sorted(unique_item_ids)
RankIn(S, item) == Cardinality({ j \in S : j < item })

\* CF_ITEM_SIMILARITY_METRIC: the two metrics build_item_similarity supports
Metrics == {"jaccard", "cosine"}

\* all_item_ids arguments of the build; {} stands for None
ItemIdArgs == { {}, Items \ {1}, Items }

\* len(users1.intersection(users2)) and len(users1.union(users2))
CoOccurrence(table, i, j) == Cardinality(ItemUsers(table, i) \cap ItemUsers(table, j))
UnionCount(table, i, j) == Cardinality(ItemUsers(table, i) \cup ItemUsers(table, j))

\* the jaccard loop with similarity_data[idx2][idx1] left out
JaccardCellsOneWay(table, keyed) ==
  LET jac(p) == (CoOccurrence(table, p[1], p[2]) * Unit) \div UnionCount(table, p[1], p[2])
      stored == { p \in keyed \X keyed :
                    /\ p[1] <= p[2]
                    /\ CoOccurrence(table, p[1], p[2]) >= CF_MIN_CO_OCCURRENCE
                    /\ jac(p) > 0 }
  IN [ p \in stored |-> jac(p) ]

\* the jaccard loop over item_user_sets: i from the first key, j from i on
\* (the item itself included), each stored pair written both ways
JaccardCells(table, keyed) ==
  LET jac(p) == (CoOccurrence(table, p[1], p[2]) * Unit) \div UnionCount(table, p[1], p[2])
      stored == { p \in keyed \X keyed :
                    /\ CoOccurrence(table, p[1], p[2]) >= CF_MIN_CO_OCCURRENCE
                    /\ jac(p) > 0 }
  IN [ p \in stored |-> jac(p) ]

\* cosine of two binary user vectors, |A & B| / sqrt(|A| |B|), rounded down
CosineOf(inter, a, b) ==
  CHOOSE v \in 0..Unit :
    /\ v * v * a * b <= (Unit * inter) * (Unit * inter)
    /\ (v + 1) * (v + 1) * a * b > (Unit * inter) * (Unit * inter)

\* min_similarity_threshold = 0.01
min_similarity_threshold == Unit \div 100

\* the cosine branch: the non-zero cells off the diagonal that reach the
\* threshold
CosineCells(table, keyed) ==
  LET cos(p) == CosineOf(CoOccurrence(table, p[1], p[2]),
                         Cardinality(ItemUsers(table, p[1])),
                         Cardinality(ItemUsers(table, p[2])))
      stored == { p \in keyed \X keyed :
                    /\ p[1] # p[2]
                    /\ CoOccurrence(table, p[1], p[2]) > 0
                    /\ cos(p) >= min_similarity_threshold }
  IN [ p \in stored |-> cos(p) ]

\* build_item_similarity(user_interactions, all_item_ids) under the metric of
\* the configuration, on the globals old.  A user without interactions has
\* no key in user_interactions.  The id maps are assigned before the
\* similarity is computed; frame_fails: the DataFrame conversion raises.
build_item_similarity(metric, table, all_item_ids, frame_fails, old) ==
  LET interacted == UNION { Range(table[u]) : u \in DOMAIN table }
      unique_item_ids == IF all_item_ids # {} THEN all_item_ids ELSE interacted
      idmap == [ i \in unique_item_ids |-> RankIn(unique_item_ids, i) ]
      keyed == { i \in unique_item_ids : ItemUsers(table, i) # {} }
      similarity_data == IF metric = "jaccard" THEN JaccardCells(table, keyed)
                         ELSE CosineCells(table, keyed)
      item_at(x) == CHOOSE i \in unique_item_ids : idmap[i] = x
      cells == { <<idmap[p[1]], idmap[p[2]]>> : p \in DOMAIN similarity_data }
  IN IF interacted = {}
     THEN [ ok |-> FALSE, model |-> old ]
     ELSE IF metric = "cosine" /\ keyed = {}
     THEN [ ok |-> FALSE, model |-> [ old EXCEPT !.idmap = idmap ] ]
     ELSE IF frame_fails
     THEN [ ok |-> FALSE, model |-> [ built |-> FALSE, sim |-> <<>>, idmap |-> idmap ] ]
     ELSE [ ok |-> TRUE,
            model |-> [ built |-> TRUE,
                        sim |-> [ c \in cells |->
                                    similarity_data[<<item_at(c[1]), item_at(c[2])>>] ],
                        idmap |-> idmap ] ]

MatrixRows(m) == { c[1] : c \in DOMAIN m.sim }
MatrixCols(m) == { c[2] : c \in DOMAIN m.sim }
MatrixCell(m, r, c) == IF <<r, c>> \in DOMAIN m.sim THEN m.sim[<<r, c>>] ELSE 0

RECURSIVE SumOver(_, _)
SumOver(S, f) ==
  IF S = {} THEN 0
  ELSE LET x == CHOOSE y \in S : TRUE IN f[x] + SumOver(S \ {x}, f)

\* get_collaborative_filtering_scores: {candidate: score}, a function on the
\* candidates that got a score
get_collaborative_filtering_scores(m, user_history_item_ids, candidate_item_ids) ==
  LET recent_history == LastN(user_history_item_ids, CF_USER_HISTORY_LIMIT)
      user_interacted_indices ==
        { m.idmap[i] : i \in Range(recent_history) \cap DOMAIN m.idmap }
      hits(cand) ==
        IF cand \in DOMAIN m.idmap /\ m.idmap[cand] \in MatrixRows(m)
        THEN { h \in user_interacted_indices :
                 h \in MatrixCols(m) /\ MatrixCell(m, m.idmap[cand], h) > 0 }
        ELSE {}
      total(cand) ==
        SumOver(hits(cand), [ h \in hits(cand) |-> MatrixCell(m, m.idmap[cand], h) ])
      scored == { c \in candidate_item_ids : hits(c) # {} }
  IN IF user_history_item_ids = <<>> \/ candidate_item_ids = {} THEN <<>>
     ELSE IF ~m.built THEN <<>>
     ELSE IF user_interacted_indices = {} THEN <<>>
     ELSE [ c \in scored |-> total(c) ]

\* --------------------------------------------- users of the batch run
\* A row of the users frame (db_manager.load_users): 'id' is str(_id); the
\* row carries an integer CUST_NO, or none and an id of digits, or none and
\* an id that is not a number.
UserKinds == <<"CUST_NO_int", "id_digits", "id_other">>
UserRow(u) == [ id |-> u, kind |-> UserKinds[((u - 1) % 3) + 1] ]
UsersPd == { UserRow(u) : u \in UserIds }

\* values of the cust_no field: Python int and str are different values
IntVal(n) == [ type |-> "int", v |-> n ]
StrVal(n) == [ type |-> "str", v |-> n ]
NoVal == [ type |-> "none", v |-> 0 ]

\* ------------------------- per-user stage (pipeline/local_candidate.py)
\* What one rule's apply did: raised, or returned a list of ids (kept as the
\* set of its elements: the pipeline only does set.update with it).
RAISE == [ raised |-> TRUE, ids |-> {} ]
Returned(S) == [ raised |-> FALSE, ids |-> S ]
RuleOutcomes ==
  {RAISE} \cup { Returned(S) : S \in { T \in SUBSET Items : Cardinality(T) <= MaxRuleOut } }

\* dask compute(*delayed_results) and the aggregation loop inside one try:
\* compute raises when a task raised, before any result is aggregated
ParallelRules(outcomes) ==
  IF \E i \in DOMAIN outcomes : outcomes[i].raised THEN {}
  ELSE UNION { outcomes[i].ids : i \in DOMAIN outcomes }

\* compute_local_candidates: LocalMarketContentRule, LocalOwnedStockContentRule,
\* LocalSectorContentRule run in parallel
compute_local_candidates(outcomes) == ParallelRules(outcomes)

\* compute_global_candidates: GlobalStockTopReturnRule, GlobalTopLikeContentRule
compute_global_candidates(outcomes) == ParallelRules(outcomes)

\* --------------------------- scoring (pipeline/final_candidate.py)
Flag(b) == IF b THEN 1 ELSE 0

\* calculate_initial_scores; order is the iteration order of the set
\* all_candidate_ids, history is context['user_interactions'].get(user id, [])
calculate_initial_scores(cfg, m, history, global_ids, cluster_ids, local_ids, order) ==
  LET all_candidate_ids == global_ids \cup cluster_ids \cup local_ids
      base(c) == Flag(c \in global_ids) * SourceWeight(cfg, "global")
               + Flag(c \in cluster_ids) * SourceWeight(cfg, "cluster")
               + Flag(c \in local_ids) * SourceWeight(cfg, "local")
      cf_scores == IF cfg.cf_weight > 0 /\ history # <<>>
                   THEN get_collaborative_filtering_scores(m, history, all_candidate_ids)
                   ELSE <<>>
      cf(c) == IF c \in DOMAIN cf_scores THEN cf_scores[c] ELSE 0
      final(c) == base(c) + cfg.cf_weight * cf(c) + CB_WEIGHT * 0
      kept == { c \in all_candidate_ids : final(c) >= MIN_SCORE_THRESHOLD }
      final_scores == SelectPairs([ i \in DOMAIN order |-> <<order[i], final(order[i])>> ], kept)
  IN IF all_candidate_ids = {} THEN <<>>
     ELSE IF Len(final_scores) > MAX_CANDIDATES_PER_USER
          THEN Take(SortByScoreDesc(final_scores), MAX_CANDIDATES_PER_USER)
          ELSE final_scores

\* The third argument of generate_candidate_for_user as the caller built it:
\* a list of ids, or a dict {cluster id: list of ids}.
ListArg(S) == [ kind |-> "list", ids |-> S ]
DictArg(S) == [ kind |-> "dict", ids |-> S ]

\* the cust_no expression of result_doc (final_candidate.py:155)
ResultCustNo(user) ==
  IF user.kind = "CUST_NO_int" THEN IntVal(user.id)
  ELSE IF user.kind = "id_digits" THEN IntVal(user.id)
  ELSE NoVal

\* generate_candidate_for_user.  cluster_candidates_map.get(...) exists on a
\* dict only: on a list the call raises AttributeError.  The curation_list of
\* the document is the dict of scores itself.
generate_candidate_for_user(cfg, m, table, user, global_candidates, cluster_candidates_map, local_outcomes, order) ==
  LET local_candidates == compute_local_candidates(local_outcomes)
      initial_scores ==
        calculate_initial_scores(cfg, m, table[user.id], global_candidates,
                                 cluster_candidates_map.ids, local_candidates, order)
  IN IF cluster_candidates_map.kind # "dict"
     THEN [ raised |-> TRUE, user |-> user.id, cust_no |-> NoVal,
            shape |-> "none", curation_list |-> <<>>, malformed |-> {} ]
     ELSE [ raised |-> FALSE, user |-> user.id, cust_no |-> ResultCustNo(user),
            shape |-> "dict", curation_list |-> initial_scores, malformed |-> {} ]

\* ------------------------------- persistence (utils/db_manager.py)
batch_size == 1000
max_retries == 3

Min(a, b) == IF a <= b THEN a ELSE b

RECURSIVE DropAt(_, _, _)
\* the entries of s whose index (counted from k) is not in drop
DropAt(s, drop, k) ==
  IF s = <<>> THEN <<>>
  ELSE IF k \in drop THEN DropAt(Tail(s), drop, k + 1)
       ELSE <<Head(s)>> \o DropAt(Tail(s), drop, k + 1)

\* the valid_curations of one result: the entries that are dicts holding
\* 'curation_id' and a score float() accepts; r.malformed are the others
ValidCurations(r) == DropAt(r.curation_list, r.malformed, 1)

RECURSIVE validate_candidate_results(_)
\* a result is kept when its cust_no is a non-empty str, its curation_list
\* is a list and at least one entry of the list is valid
validate_candidate_results(results) ==
  IF results = <<>> THEN <<>>
  ELSE LET r == Head(results)
           rest == validate_candidate_results(Tail(results))
       IN IF r.cust_no.type = "str" /\ r.shape = "list" /\ ValidCurations(r) # <<>>
          THEN <<[ cust_no |-> r.cust_no, curation_list |-> ValidCurations(r) ]>> \o rest
          ELSE rest

\* the upsert with create_dt among the fields of $set
UpdateOneUpsertSettingCreateDt(coll, rec, now) ==
  { d \in coll : d.cust_no # rec.cust_no }
    \cup { [ cust_no |-> rec.cust_no, shape |-> "list", curation_list |-> rec.curation_list,
             create_dt |-> now, modi_dt |-> now ] }

\* UpdateOne({'cust_no': c}, {$set: curation_list, modi_dt; $setOnInsert:
\* create_dt}, upsert=True) on a collection kept as a set of documents
UpdateOneUpsert(coll, rec, now) ==
  IF \E d \in coll : d.cust_no = rec.cust_no
  THEN LET d == CHOOSE x \in coll : x.cust_no = rec.cust_no
       IN (coll \ {d}) \cup
          { [ d EXCEPT !.shape = "list", !.curation_list = rec.curation_list,
                       !.modi_dt = now ] }
  ELSE coll \cup { [ cust_no |-> rec.cust_no, shape |-> "list",
                     curation_list |-> rec.curation_list,
                     create_dt |-> now, modi_dt |-> now ] }

RECURSIVE BulkWrite(_, _, _, _, _)
\* the operations of ops[from..] whose index is in idx, applied in turn
BulkWrite(coll, ops, idx, k, now) ==
  IF k > Len(ops) THEN coll
  ELSE BulkWrite(IF k \in idx THEN UpdateOneUpsert(coll, ops[k], now) ELSE coll,
                 ops, idx, k + 1, now)

RECURSIVE WriteBatches(_, _, _, _, _, _)
\* the batch loop with its retry loop.  fails[b] is the number of attempts
\* of batch b that raise; an unordered bulk_write that raises has applied
\* the operations partial (indices into validated) of its batch.  A batch
\* whose max_retries attempts all raise ends the loop with MongoDBError.
WriteBatches(coll, validated, start, fails, partial, now) ==
  IF start > Len(validated) THEN [ raised |-> FALSE, coll |-> coll ]
  ELSE LET stop == Min(start + batch_size - 1, Len(validated))
           b == ((start - 1) \div batch_size) + 1
           some == BulkWrite(coll, validated, (start..stop) \cap partial, 1, now)
           all == BulkWrite(coll, validated, start..stop, 1, now)
       IN IF fails[b] >= max_retries
          THEN [ raised |-> TRUE, coll |-> some ]
          ELSE WriteBatches(all, validated, start + batch_size, fails, partial, now)

NumBatches(n) == (n + batch_size - 1) \div batch_size

\* What the environment does to one save_results call: pre_fail, the handle
\* or the import raises before the batch loop; fails and partial as above;
\* file_fail, writing the fallback file raises.
SaveEnvs(n) ==
  [ pre_fail : BOOLEAN, fails : [1..NumBatches(n) -> {0, 1, max_retries}],
    partial : { {}, {1} \cap (1..n) }, file_fail : BOOLEAN ]

\* save_results: ret is "True", "False" or the exception raised
save_results(results, coll, file, env, now) ==
  LET validated == validate_candidate_results(results)
      written == WriteBatches(coll, validated, 1, env.fails, env.partial, now)
  IN IF results = <<>> THEN [ ret |-> "True", coll |-> coll, file |-> file ]
     ELSE IF validated = <<>> THEN [ ret |-> "False", coll |-> coll, file |-> file ]
     ELSE IF env.pre_fail
          THEN IF env.file_fail
               THEN [ ret |-> "MongoDBError", coll |-> coll, file |-> file ]
               ELSE [ ret |-> "False", coll |-> coll, file |-> validated ]
     ELSE IF written.raised
          THEN [ ret |-> "MongoDBError", coll |-> written.coll, file |-> file ]
          ELSE [ ret |-> "True", coll |-> written.coll, file |-> file ]

\* main() lines 213-248, the persist step: nothing to save counts as success;
\* otherwise success is what save_results returned, and an exception of
\* save_results becomes BatchProcessError, which leaves success False
main_save_results(to_save, coll, file, env, now) ==
  LET saved == save_results(to_save, coll, file, env, now)
  IN IF to_save = <<>>
     THEN [ success |-> TRUE, ret |-> "none", coll |-> coll, file |-> file ]
     ELSE [ success |-> (saved.ret = "True"), ret |-> saved.ret,
            coll |-> saved.coll, file |-> saved.file ]

\* ------------------- the online read (api/services/recommendation_service.py)
\* .limit(100) of the fallback reads
FallbackLimit == 100

\* [(str(doc["_id"]), 0.0) for doc in docs]
ZeroScored(rows) == [ i \in DOMAIN rows |-> <<rows[i], 0>> ]

\* a fetch that takes the rows of a fallback read although the read raised
fetch_keeping_failed_reads(cust_no, coll, reads) ==
  LET docs == { d \in coll : d.cust_no = cust_no }
      doc == CHOOSE d \in docs : TRUE
      own == IF reads.find_fail \/ docs = {} THEN <<>>
             ELSE IF doc.shape = "dict" THEN doc.curation_list
             ELSE <<>>
  IN IF own # <<>> THEN own
     ELSE IF reads.curation_hist # <<>>
          THEN ZeroScored(Take(reads.curation_hist, FallbackLimit))
     ELSE ZeroScored(Take(reads.curation, FallbackLimit))

\* fetch_initial_candidates_with_scores(cust_no, db).  reads: find_fail, the
\* find_one raises; curation_hist and curation, the ids of the two content
\* collections, most recent first; hist_fail and curation_fail, that read
\* raises.  A document counts only when its curation_list is a dict.
fetch_initial_candidates_with_scores(cust_no, coll, reads) ==
  LET docs == { d \in coll : d.cust_no = cust_no }
      doc == CHOOSE d \in docs : TRUE
      candidates_with_scores ==
        IF reads.find_fail \/ docs = {} THEN <<>>
        ELSE IF doc.shape = "dict" THEN doc.curation_list
        ELSE <<>>
  IN IF candidates_with_scores # <<>> THEN candidates_with_scores
     ELSE IF ~reads.hist_fail /\ reads.curation_hist # <<>>
          THEN ZeroScored(Take(reads.curation_hist, FallbackLimit))
     ELSE IF ~reads.curation_fail /\ reads.curation # <<>>
          THEN ZeroScored(Take(reads.curation, FallbackLimit))
     ELSE <<>>

\* --------------------------------- online rules (src/api/rules)
\* the rule lists of api/rules/__init__.py, in their order of execution
PRE_RANKING_RULES == <<"ExcludeSeenItems">>
POST_RANKING_RULES == <<"BoostUserStocks", "BoostTopReturnStock", "AddScoreNoise">>

\* stock codes; 0 stands for None, a content without a label
NoStock == 0
Stocks == 1..4

RECURSIVE Filter(_, _)
\* [c for c in s if c not in drop]
Filter(s, drop) ==
  IF s = <<>> THEN <<>>
  ELSE IF Head(s) \in drop THEN Filter(Tail(s), drop)
       ELSE <<Head(s)>> \o Filter(Tail(s), drop)

\* a filter that goes through a set: list(set(candidates) - seen_items)
ExcludeSeenItemsAsSet(user_context, candidates) ==
  LET left == Range(candidates) \ user_context.seen_items_set
  IN CHOOSE s \in Orders(left) : \A i, j \in DOMAIN s : i < j => s[i] < s[j]

\* a filter whose loop starts at the second candidate: candidates[1:]
ExcludeSeenItemsSkippingFirst(user_context, candidates) ==
  IF user_context.seen_items_set = {} \/ candidates = <<>> THEN candidates
  ELSE Filter(Tail(candidates), user_context.seen_items_set)

\* ExcludeSeenItemsRule.apply(user_context, candidates)
ExcludeSeenItemsRule(user_context, candidates) ==
  IF user_context.seen_items_set = {} THEN candidates
  ELSE Filter(candidates, user_context.seen_items_set)

\* meta.get(item_id, {}).get("label")
LabelOf(user_context, item_id) ==
  IF item_id \in DOMAIN user_context.content_meta
  THEN user_context.content_meta[item_id]
  ELSE NoStock

Max(a, b) == IF a >= b THEN a ELSE b

\* BoostUserStocksRule.WEIGHTS, in tenths
UserStockWeights == [ owned |-> 15, recent |-> 13, group1 |-> 12, onboarding |-> 11 ]

\* a loop in which the weight of the last list holding the code wins
UserStockBoostLastMatch(user_context, stock_code) ==
  IF stock_code \in user_context.onboarding_stocks_set THEN UserStockWeights.onboarding
  ELSE IF stock_code \in user_context.group1_stocks_set THEN UserStockWeights.group1
  ELSE IF stock_code \in user_context.recent_stocks_set THEN UserStockWeights.recent
  ELSE IF stock_code \in Range(user_context.owned_stocks) THEN UserStockWeights.owned
  ELSE 10

\* the boost of one stock code, in tenths: the largest weight among the lists
\* holding the code, 1.0 when none holds it
UserStockBoost(user_context, stock_code) ==
  Max(Max(IF stock_code \in Range(user_context.owned_stocks)
            THEN UserStockWeights.owned ELSE 10,
          IF stock_code \in user_context.recent_stocks_set
            THEN UserStockWeights.recent ELSE 10),
      Max(IF stock_code \in user_context.group1_stocks_set
            THEN UserStockWeights.group1 ELSE 10,
          IF stock_code \in user_context.onboarding_stocks_set
            THEN UserStockWeights.onboarding ELSE 10))

\* BoostUserStocksRule.apply(user_context, ranked_items)
BoostUserStocksRule(user_context, ranked_items) ==
  IF /\ user_context.owned_stocks = <<>>
     /\ user_context.recent_stocks_set = {}
     /\ user_context.group1_stocks_set = {}
     /\ user_context.onboarding_stocks_set = {}
  THEN ranked_items
  ELSE SortByScoreDesc(
         [ i \in DOMAIN ranked_items |->
             <<ranked_items[i][1],
               (ranked_items[i][2]
                  * UserStockBoost(user_context, LabelOf(user_context, ranked_items[i][1])))
                 \div 10>> ])

\* a lookup that asks for "1d_returns" first
ReturnOfDayFirst(r) == IF r.has1d THEN r.v1d ELSE r.v1m

\* r.get("1m_returns"), else r.get("1d_returns"); a return record holds
\* has1m, v1m, has1d, v1d
ReturnOf(r) == IF r.has1m THEN r.v1m ELSE r.v1d
HasReturn(user_context, stock) ==
  /\ stock \in DOMAIN user_context.owned_stock_returns
  /\ \/ user_context.owned_stock_returns[stock].has1m
     \/ user_context.owned_stock_returns[stock].has1d

\* the loop over owned (a set, iterated in the order owned_stocks lists it):
\* the first stock whose return is larger than every return before it and
\* not smaller than any return after it
TopStock(user_context) ==
  LET owned == user_context.owned_stocks
      val(k) == ReturnOf(user_context.owned_stock_returns[owned[k]])
      rated == { k \in DOMAIN owned : HasReturn(user_context, owned[k]) }
      best == { k \in rated : /\ \A j \in rated : val(j) <= val(k)
                              /\ \A j \in rated : j < k => val(j) < val(k) }
  IN IF rated = {} THEN NoStock ELSE owned[CHOOSE k \in best : TRUE]

BOOST_FACTOR == 2

\* BoostTopReturnStockRule.apply(user_context, ranked_items)
BoostTopReturnStockRule(user_context, ranked_items) ==
  LET top_stock == TopStock(user_context)
  IN IF top_stock = NoStock THEN ranked_items
     ELSE SortByScoreDesc(
            [ i \in DOMAIN ranked_items |->
                <<ranked_items[i][1],
                  IF LabelOf(user_context, ranked_items[i][1]) = top_stock
                  THEN ranked_items[i][2] * BOOST_FACTOR
                  ELSE ranked_items[i][2]>> ])

\* NOISE_LEVEL = 0.01; random.uniform(0, NOISE_LEVEL) is one of NoiseLevels
NoiseLevel == Unit \div 100
NoiseLevels == {0, NoiseLevel}

\* a comprehension that starts at the second item: ranked_items[1:]
AddScoreNoiseSkippingFirst(noise, ranked_items) ==
  SortByScoreDesc([ i \in 1..(Len(ranked_items) - 1) |->
                      <<ranked_items[i + 1][1], ranked_items[i + 1][2] + noise[i + 1]>> ])

\* AddScoreNoiseRule.apply; noise[i] is the draw for the i-th item
AddScoreNoiseRule(noise, ranked_items) ==
  SortByScoreDesc([ i \in DOMAIN ranked_items |->
                      <<ranked_items[i][1], ranked_items[i][2] + noise[i]>> ])

\* MarketCapRecencyRandomRule.apply: the market-cap, recency and random terms
\* are each normalised into [0, 1]; bonus[i] is their sum for the i-th item
BonusLevels == {0, Unit}
MarketCapRecencyRandomRule(bonus, ranked_items) ==
  SortByScoreDesc([ i \in DOMAIN ranked_items |->
                      <<ranked_items[i][1], ranked_items[i][2] + bonus[i]>> ])

\* rule.apply of the post-ranking rule with this rule_name
ApplyPostRule(rule_name, user_context, noise, ranked_items) ==
  IF rule_name = "BoostUserStocks" THEN BoostUserStocksRule(user_context, ranked_items)
  ELSE IF rule_name = "BoostTopReturnStock"
       THEN BoostTopReturnStockRule(user_context, ranked_items)
  ELSE AddScoreNoiseRule(noise, ranked_items)

\* what apply of a BasePostRankReorderRule can hand back for ranked_items
\* ("reorder or filter, then return"): the list of the registered rule, or
\* that list with its first pair filtered out; the engine takes any list
PostRuleReturns(reordered) ==
  { reordered } \cup (IF reordered = <<>> THEN {} ELSE { Tail(reordered) })

\* final_ranked_items[:RECOMMENDATION_COUNT]
RECOMMENDATION_COUNT == 2

\* ------------------------------ fetch_user_portfolio (data_loader.py)
\* Retry(total=max_retries, status_forcelist=[429, 500, 502, 503, 504],
\* allowed_methods=["GET", "POST"]) of create_robust_session
RetryTotal == 3
status_forcelist == {429, 500, 502, 503, 504}

\* what one attempt of session.post can meet: a response, or no response
ResponseCodes == {200, 400, 404, 429, 500, 501, 502, 503, 504}
AttemptOutcomes ==
  { [ kind |-> "response", code |-> c, body |-> "none" ] : c \in ResponseCodes \ {200} }
    \cup { [ kind |-> "response", code |-> 200, body |-> b ] : b \in {"object", "array", "garbage"} }
    \cup { [ kind |-> k, code |-> 0, body |-> "none" ] :
             k \in {"connect_timeout", "read_timeout", "connection_error"} }

\* Retry.is_retry for a response, Retry.increment for an error of a POST
is_retry(o) == o.kind # "response" \/ o.code \in status_forcelist

\* Retry.increment and Retry.is_exhausted
increment(total) == total - 1
is_exhausted(total) == total < 0

\* the exception session.post raises when the retries are exhausted
\* (HTTPAdapter.send on MaxRetryError)
ExhaustedError(o) ==
  IF o.kind = "connect_timeout" THEN "ConnectTimeout"
  ELSE IF o.kind = "response" THEN "RetryError"
  ELSE "ConnectionError"

\* the handlers of fetch_user_portfolio without the last one
CaughtByNamedClauses(exc) == exc \in {"ConnectTimeout", "ConnectionError", "HTTPError"}

\* the handlers of fetch_user_portfolio: Timeout, ConnectionError, HTTPError,
\* then Exception
Caught(exc) ==
  \/ exc \in {"ConnectTimeout", "ConnectionError", "HTTPError"}
  \/ exc \in {"RetryError", "JSONDecodeError"}

\* what the function does with the response session.post returned
HandleResponse(o) ==
  IF o.code = 429 \/ o.code = 404 \/ o.code >= 500 THEN [ ret |-> "empty", exc |-> "none" ]
  ELSE IF o.code >= 400 THEN [ ret |-> "empty", exc |-> "HTTPError" ]
  ELSE IF o.body = "object" THEN [ ret |-> "data", exc |-> "none" ]
  ELSE [ ret |-> "empty", exc |-> "none" ]

\* the end of the call with exception exc ("none": a return)
Finish(call, ret, exc) ==
  IF exc = "none" \/ Caught(exc)
  THEN [ call EXCEPT !.pc = "done", !.ret = ret, !.exc = exc ]
  ELSE [ call EXCEPT !.pc = "done", !.ret = "none", !.exc = exc, !.raised = TRUE ]

\* one attempt of session.post meeting o
send(call, o) ==
  LET sent == [ call EXCEPT !.outcomes = Append(@, o) ]
  IN IF is_retry(o)
     THEN IF is_exhausted(increment(call.total))
          THEN Finish(sent, "empty", ExhaustedError(o))
          ELSE [ sent EXCEPT !.total = increment(call.total) ]
     ELSE Finish(sent, HandleResponse(o).ret, HandleResponse(o).exc)

\* ---------- signal_handler, cleanup_resources, main (candidate_generation.py)
\* signals delivered to one process
MaxSignals == 2

Frame(fn, at) == [ fn |-> fn, pc |-> at ]
Top(s) == s[Len(s)]
Pop(s) == SubSeq(s, 1, Len(s) - 1)
SetTop(s, at) == [ s EXCEPT ![Len(s)].pc = at ]

\* the top frame calls fn and will resume at `at`
Call(s, at, fn) == Append(SetTop(s, at), Frame(fn, "entry"))

\* SystemExit raised in the top frame: no except clause of signal_handler,
\* cleanup_resources or main catches it; the try of main runs its finally
RECURSIVE SystemExit(_)
SystemExit(s) ==
  IF s = <<>> THEN <<>>
  ELSE IF Top(s).fn = "main" /\ Top(s).pc \in {"connect", "work"} THEN SetTop(s, "finally")
  ELSE SystemExit(Pop(s))

\* a handle of db_manager: the module global is set (ref), what it names is
\* open, and how often its close() was called
NoHandle == [ ref |-> FALSE, open |-> FALSE, closes |-> 0 ]
Connected == [ ref |-> TRUE, open |-> TRUE, closes |-> 0 ]

\* ------------------------------ batch_processor (api/batch_processor.py)
\* The module is commented out in the repository and startup_event does not
\* create its task; it is modelled as it is written.
\* requests enqueued in one run
MaxRequests == 2

\* asyncio.Future: set_result and set_exception raise InvalidStateError on a
\* future that is done; a cancelled future is done
Done(f) == f.state # "pending"
SetException(fs, r) == [ fs EXCEPT ![r].state = "exception" ]
SetResult(fs, r) == [ fs EXCEPT ![r].state = "result", ![r].value = fs[r].user_id ]

\* the except clause of the ranking step: every future of the batch that is
\* not done gets the exception
FailPending(fs, kept) ==
  [ r \in DOMAIN fs |->
      IF r \in Range(kept) /\ ~Done(fs[r]) THEN [ fs[r] EXCEPT !.state = "exception" ]
      ELSE fs[r] ]

\* the loop over zip(futures, user_ids, ranked_results) from position j on:
\* set_result on a done future raises, and the except clause takes over
RECURSIVE SetResults(_, _, _)
SetResults(fs, kept, j) ==
  IF j > Len(kept) THEN fs
  ELSE IF Done(fs[kept[j]]) THEN FailPending(fs, kept)
  ELSE SetResults(SetResult(fs, kept[j]), kept, j + 1)

\* ------------- the batch rules and their inputs (global_rules.py, local_rules.py)
\* a content document without _id and id
NoId == 0

\* contents_list as main() builds it from the contents collection: documents
\* with _id, label and liked_users
Contents == [ id : {NoId, 1, 2}, label : {1, 2}, liked_users : { {}, {1}, {1, 2} } ]
ContentLists ==
  { <<c>> : c \in Contents }
    \cup { <<c, d>> : c \in { x \in Contents : x.id = 1 }, d \in { x \in Contents : x.id # 1 } }

\* the records fetch_latest_stock_data returns; has_returns is FALSE for a
\* record whose 1d_returns is None
StockRecords ==
  [ shrt_code : {1, 2}, country : {"Korea", "Japan"}, has_returns : BOOLEAN, returns_1d : {5, 60} ]
StockDatas == { <<>> } \cup { <<r>> : r \in StockRecords }
                \cup { <<r, q>> : r \in { x \in StockRecords : x.shrt_code = 1 /\ x.country = "Korea" },
                                  q \in { x \in StockRecords : x.shrt_code = 2 /\ x.has_returns } }

\* the defaults of the rule parameters
top_n == 10
allowed_countries == {"Korea", "USA"}
max_abs_return == 50
default_top_n == 50

\* d[key] = value on a dict
SetItem(d, key, value) == (key :> value) @@ d

\* <<position, key>> of the elements of s that have field, for the stable sort
Keyed(s, field) == [ i \in DOMAIN s |-> <<i, s[i][field]>> ]

\* GlobalTopLikedContentRule.apply(context): ret, and contents_list after it
RECURSIVE CountLikes(_)
CountLikes(contents) ==
  IF contents = <<>> THEN <<>>
  ELSE LET content == Head(contents)
       IN << IF content.id = NoId THEN content
             ELSE SetItem(content, "liked_count", Cardinality(content.liked_users)) >>
            \o CountLikes(Tail(contents))

GlobalTopLikedContentRule(contents) ==
  LET after == CountLikes(contents)
      valid_contents == SelectSeq(after, LAMBDA c : c.id # NoId)
      sorted_contents == SortByScoreDesc(Keyed(valid_contents, "liked_count"))
      top_contents == Take(sorted_contents, default_top_n)
  IN [ ret |-> [ i \in DOMAIN top_contents |-> valid_contents[top_contents[i][1]].id ],
       contents_list |-> after ]

\* GlobalStockTopReturnRule.apply(context) on the records the fetch returned:
\* ret, and the records after it
StockIsValid(stock) ==
  /\ stock.country \in allowed_countries
  /\ stock.has_returns
  /\ stock.returns_1d <= max_abs_return

RECURSIVE FloatReturns(_)
FloatReturns(stock_data) ==
  IF stock_data = <<>> THEN <<>>
  ELSE LET stock == Head(stock_data)
       IN << IF StockIsValid(stock) THEN SetItem(stock, "returns_1d_float", stock.returns_1d)
             ELSE stock >>
            \o FloatReturns(Tail(stock_data))

GlobalStockTopReturnRule(contents, stock_data) ==
  LET after == FloatReturns(stock_data)
      valid_stocks == SelectSeq(after, StockIsValid)
      top_stocks == Take(SortByScoreDesc(Keyed(valid_stocks, "returns_1d_float")), top_n)
      top_stock_codes == { valid_stocks[top_stocks[i][1]].shrt_code : i \in DOMAIN top_stocks }
      matching == SelectSeq(contents, LAMBDA c : c.label \in top_stock_codes /\ c.id # NoId)
  IN IF contents = <<>> THEN [ ret |-> <<>>, stock_data |-> stock_data ]
     ELSE [ ret |-> [ i \in DOMAIN matching |-> matching[i].id ], stock_data |-> after ]

\* LocalRelatedContentRule.apply(user, context): base_context has no
\* 'related_stock_cache' and call_external_api answers without
\* 'related_codes', so no related stock is found and nothing is cached
LocalRelatedContentRule(contents, owned_stocks) ==
  [ ret |-> <<>>, contents_list |-> contents ]

\* ------------- get_anonymous_recommendations (recommendation_service.py)
\* global_data/anonymous_recs as find_one can return it: no document, a
\* document without curation_ids, one whose curation_ids is not a list, or
\* one with a list of ids
IdLists == UNION { [1..n -> Items] : n \in 0..NItems }
AnonymousDocs ==
  { [ kind |-> k, curation_ids |-> <<>> ] : k \in {"missing", "no_field", "not_a_list"} }
    \cup { [ kind |-> "list", curation_ids |-> l ] : l \in IdLists }

\* random.shuffle(x): the orders it can leave the positions of x in
Shuffles(x) == Orders(DOMAIN x)
Shuffled(x, order) == [ i \in DOMAIN x |-> x[order[i]] ]

\* the function shuffling the list of the document itself
get_anonymous_recommendations_in_place(connected, read_fails, doc, order) ==
  IF ~connected THEN [ raised |-> TRUE, ret |-> <<>>, doc |-> doc ]
  ELSE IF read_fails \/ doc.kind # "list" THEN [ raised |-> FALSE, ret |-> <<>>, doc |-> doc ]
  ELSE [ raised |-> FALSE,
         ret |-> Take(Shuffled(doc.curation_ids, order), RECOMMENDATION_COUNT),
         doc |-> [ doc EXCEPT !.curation_ids = Shuffled(doc.curation_ids, order) ] ]

\* get_anonymous_recommendations(): get_mongo_db() raises when the client is
\* not connected; a failing find_one is caught; ret is the head of the
\* shuffled copy
get_anonymous_recommendations(connected, read_fails, doc, order) ==
  IF ~connected THEN [ raised |-> TRUE, ret |-> <<>>, doc |-> doc ]
  ELSE IF read_fails \/ doc.kind # "list" THEN [ raised |-> FALSE, ret |-> <<>>, doc |-> doc ]
  ELSE [ raised |-> FALSE,
         ret |-> Take(Shuffled(doc.curation_ids, order), RECOMMENDATION_COUNT),
         doc |-> doc ]

\* ------------------------------------------------------------ state
VARIABLES
  cfg,                    \* the batch_scoring configuration of the process
  pc,                     \* main(): "start", "global", "other", "users", "done"
  global_rule_results,    \* compute_global_candidates: what each rule did
  global_candidates,      \* main(): the global pool
  other_candidates,       \* main(): the pool of GlobalTopLikedContentRule
  computed,               \* main(): user id -> result of its delayed worker
  final_results_to_save,  \* main(): what is handed to save_results
  success,                \* main(): the flag that decides the exit code
  user_candidate,         \* MongoDB collection user_candidate
  fallback_file,          \* the records of the fallback file, <<>> if none
  save_ret,               \* what the last save_results call returned
  clock,                  \* pd.Timestamp.now() of the next save
  cf_model,               \* cf_utils: item_similarity_matrix, item_id_map_cf
  gen_in,                 \* arguments of the last generate_candidate_for_user
  result_doc,             \* what that call returned
  save_env,               \* what the environment did to the last save_results
  fetch_in,               \* arguments and reads of the last candidate fetch
  fetched,                \* what that fetch returned
  rule_call,              \* the calls of ExcludeSeenItemsRule.apply made so far
  rq_pc,                  \* get_live_recommendations: "idle", "pre", "post", "done",
                          \* "error" when it raised
  rq_in,                  \* its cust_no and what its reads found
  user_context,           \* its user_context
  initial_candidates_with_scores,
  candidates_after_pre_rules,
  final_ranked_items,
  applied,                \* the rule.apply calls made, in order
  response,               \* the list it returned
  cf_call,                \* the builds and the last scorer call on the CF globals
  post_call,              \* the last apply of a post-reorder rule on its own
  portfolio_call,         \* one fetch_user_portfolio call and its attempts
  stack,                  \* the frames of the batch process's main thread
  cleanup_performed,      \* candidate_generation.cleanup_performed
  mongo_client,           \* db_manager.mongo_client and the client it names
  os_client,              \* db_manager.os_client
  oracle_pool,            \* db_manager.oracle_pool and the pool it names
  shutdown,               \* signals delivered, cleanup_resources calls, closes that raised
  request_queue,          \* batch_processor.request_queue: the futures enqueued
  futures,                \* the reply futures created so far, with their user_id
  dispatcher,             \* the batch_processor task: where it is, its current batch
  contents_list,          \* base_context['contents_list'], shared by the batch rules
  rule_effect,            \* the last apply of a batch rule: its inputs before and after
  anonymous_call,         \* the last get_anonymous_recommendations call
  post_lengths            \* per post-ranking rule applied: <<len(given), len(returned)>>

batchVars == <<cfg, pc, global_rule_results, global_candidates, other_candidates, computed,
               final_results_to_save, success, user_candidate, fallback_file,
               save_ret, clock>>

callVars == <<cf_model, gen_in, result_doc, save_env, fetch_in, fetched>>

liveVars == <<rq_pc, rq_in, user_context, initial_candidates_with_scores,
              candidates_after_pre_rules, final_ranked_items, applied, response>>

pureVars == <<cf_call, post_call>>

shutdownVars == <<stack, cleanup_performed, mongo_client, os_client, oracle_pool, shutdown>>

coalescerVars == <<request_queue, futures, dispatcher>>

frameVars == <<contents_list, rule_effect>>

sideVars == <<portfolio_call, shutdownVars, coalescerVars, frameVars, anonymous_call, post_lengths>>

\* everything but the state of one fetch_user_portfolio call
exceptPortfolio ==
  <<batchVars, callVars, rule_call, liveVars, pureVars, shutdownVars, coalescerVars, frameVars,
    anonymous_call, post_lengths>>

\* everything but the state of the process shutdown
exceptShutdown ==
  <<batchVars, callVars, rule_call, liveVars, pureVars, portfolio_call, coalescerVars, frameVars,
    anonymous_call, post_lengths>>

\* everything but the last anonymous call
exceptAnonymous ==
  <<batchVars, callVars, rule_call, liveVars, pureVars, portfolio_call, shutdownVars,
    coalescerVars, frameVars, post_lengths>>

\* everything but the inputs of the batch rules
exceptFrame ==
  <<batchVars, callVars, rule_call, liveVars, pureVars, portfolio_call, shutdownVars, coalescerVars,
    anonymous_call, post_lengths>>

\* everything but the state of the request queue and its dispatcher
exceptCoalescer ==
  <<batchVars, callVars, rule_call, liveVars, pureVars, portfolio_call, shutdownVars, frameVars,
    anonymous_call, post_lengths>>

unitVars == <<callVars, rule_call, liveVars, pureVars, sideVars>>

Pending == [ raised |-> FALSE, user |-> 0, cust_no |-> NoVal,
             shape |-> "pending", curation_list |-> <<>>, malformed |-> {} ]

InitRun ==
  /\ cfg \in Configs
  /\ pc = "start"
  /\ global_rule_results = <<>>
  /\ global_candidates = {}
  /\ other_candidates = {}
  /\ computed = [ u \in UserIds |-> Pending ]
  /\ final_results_to_save = <<>>
  /\ success = FALSE
  /\ fallback_file = <<>>
  /\ save_ret = "none"
  /\ clock = 1

InitBatch == InitRun /\ user_candidate = {}

\* ------------------------------ the batch run (candidate_generation.py)
\* main() up to the base context: validate_environment, the connections,
\* load_users and load_contents.  Any failure there, an empty users frame or
\* an empty contents list is a BatchProcessError.
MainStart ==
  /\ pc = "start"
  /\ \E loaded \in BOOLEAN :
       /\ pc' = IF loaded THEN "global" ELSE "done"
       /\ success' = FALSE
  /\ UNCHANGED <<cfg, global_rule_results, global_candidates, other_candidates, computed,
                 final_results_to_save, user_candidate, fallback_file,
                 save_ret, clock>>
  /\ UNCHANGED unitVars

\* main(): global_candidates = compute_global_candidates(base_context)
MainGlobal ==
  /\ pc = "global"
  /\ \E outcomes \in [1..2 -> RuleOutcomes] :
       /\ global_rule_results' = outcomes
       /\ global_candidates' = compute_global_candidates(outcomes)
  /\ pc' = "other"
  /\ UNCHANGED <<cfg, other_candidates, computed, final_results_to_save, success,
                 user_candidate, fallback_file, save_ret, clock>>
  /\ UNCHANGED unitVars

\* main(): other_candidates = GlobalTopLikedContentRule().apply(base_context),
\* the empty list when the rule raises
MainOther ==
  /\ pc = "other"
  /\ \E outcome \in RuleOutcomes :
       other_candidates' = IF outcome.raised THEN {} ELSE outcome.ids
  /\ pc' = "users"
  /\ UNCHANGED <<cfg, global_rule_results, global_candidates, computed, final_results_to_save, success,
                 user_candidate, fallback_file, save_ret, clock>>
  /\ UNCHANGED unitVars

\* base_context of main() has no 'user_interactions' key
NoInteractions == [ u \in UserIds |-> <<>> ]

\* one delayed task of compute(*delayed_results):
\* generate_candidate_for_user(user_dict, global_candidates, other_candidates,
\* base_context), the third argument being the list other_candidates
MainWorker(u) ==
  /\ pc = "users"
  /\ computed[u] = Pending
  /\ \E local_outcomes \in [1..3 -> RuleOutcomes] :
       \E order \in Orders(global_candidates \cup other_candidates
                            \cup compute_local_candidates(local_outcomes)) :
         computed' = [ computed EXCEPT ![u] =
           generate_candidate_for_user(cfg, NoMatrix, NoInteractions, UserRow(u),
                                       global_candidates, ListArg(other_candidates),
                                       local_outcomes, order) ]
  /\ UNCHANGED <<cfg, pc, global_rule_results, global_candidates, other_candidates,
                 final_results_to_save, success, user_candidate, fallback_file,
                 save_ret, clock>>
  /\ UNCHANGED unitVars

RECURSIVE ResultsToSave(_, _)
\* [res for res in computed_results if res and res.get('curation_list')]
ResultsToSave(results, u) ==
  IF u > NUsers THEN <<>>
  ELSE IF results[u].curation_list # <<>>
       THEN <<results[u]>> \o ResultsToSave(results, u + 1)
       ELSE ResultsToSave(results, u + 1)

\* main() from the end of compute(*delayed_results) to the exit: a task that
\* raised makes compute raise, which main() turns into BatchProcessError;
\* otherwise the non-empty results go to save_results.  success stays False
\* when save_results returns False or raises.
MainPersist ==
  /\ pc = "users"
  /\ \/ \A u \in UserIds : computed[u] # Pending
     \/ \E u \in UserIds : computed[u].raised
  /\ LET failed == \E u \in UserIds : computed[u].raised
         to_save == IF failed THEN <<>> ELSE ResultsToSave(computed, 1)
     IN /\ final_results_to_save' = to_save
        /\ \E env \in SaveEnvs(Len(to_save)) :
             LET saved == main_save_results(to_save, user_candidate, fallback_file, env, clock)
             IN IF failed
                THEN /\ success' = FALSE
                     /\ UNCHANGED <<user_candidate, fallback_file, save_ret, clock>>
                ELSE /\ success' = saved.success
                     /\ user_candidate' = saved.coll
                     /\ fallback_file' = saved.file
                     /\ save_ret' = saved.ret
                     /\ clock' = clock + 1
  /\ pc' = "done"
  /\ UNCHANGED <<cfg, global_rule_results, global_candidates, other_candidates, computed>>
  /\ UNCHANGED unitVars

NextBatch ==
  \/ MainStart
  \/ MainGlobal
  \/ MainOther
  \/ \E u \in UserIds : MainWorker(u)
  \/ MainPersist

\* ------------------- the per-user stage called on its own (final_candidate.py)
NoCall == [ user |-> 0, kind |-> "none", global |-> {}, cluster |-> {},
            local |-> {}, table |-> NoInteractions, order |-> <<>> ]
NoReads == [ find_fail |-> FALSE, hist_fail |-> FALSE, curation_fail |-> FALSE,
             curation_hist |-> <<>>, curation |-> <<>> ]
NoFetch == [ called |-> FALSE, cust_no |-> NoVal, reads |-> NoReads ]
NoRuleCall == [ n |-> 0, seen |-> {}, first |-> <<>>, arg |-> <<>>, ret |-> <<>> ]
NoContext == [ seen_items_set |-> {}, owned_stocks |-> <<>>, recent_stocks_set |-> {},
               group1_stocks_set |-> {}, onboarding_stocks_set |-> {},
               owned_stock_returns |-> <<>>, content_meta |-> <<>> ]
NoSave == [ called |-> FALSE, pre_fail |-> FALSE, exhausted |-> FALSE,
            file_fail |-> FALSE ]

\* the CF globals before any build, under a metric of the configuration:
\* n build attempts so far, last_ok what the last one returned, sim_from and
\* idmap_from the attempts that assigned the matrix and the id map
CfIdle(metric) ==
  [ metric |-> metric, n |-> 0, last_ok |-> FALSE, sim_from |-> 0, idmap_from |-> 0,
    table |-> NoInteractions, all_item_ids |-> {},
    called |-> FALSE, history |-> <<>>, candidates |-> {}, ret |-> <<>> ]
NoPostCall == [ rule |-> "none", user_context |-> NoContext, arg |-> <<>>, ret |-> <<>> ]
NoPortfolioCall ==
  [ pc |-> "idle", valid |-> FALSE, total |-> 0, outcomes |-> <<>>,
    ret |-> "none", exc |-> "none", raised |-> FALSE ]

\* the process at the start of main(), nothing connected
InitShutdown ==
  /\ stack = << Frame("main", "start") >>
  /\ cleanup_performed = FALSE
  /\ mongo_client = NoHandle
  /\ os_client = NoHandle
  /\ oracle_pool = NoHandle
  /\ shutdown = [ signals |-> 0, cleanup_runs |-> 0, raised |-> {}, connected |-> FALSE ]

\* the queue and the dispatcher task at the start of its loop
InitCoalescer ==
  /\ request_queue = <<>>
  /\ futures = <<>>
  /\ dispatcher = [ pc |-> "sleep", current_batch |-> <<>>, k |-> 0, kept |-> <<>> ]

\* before the contents are loaded and any batch rule is applied
NoRuleEffect ==
  [ loaded |-> FALSE, rule |-> "none", contents_before |-> <<>>, contents_after |-> <<>>,
    stocks_before |-> <<>>, stocks_after |-> <<>>, ret |-> <<>> ]
InitFrame ==
  /\ contents_list = <<>>
  /\ rule_effect = NoRuleEffect

NoAnonymousCall ==
  [ called |-> FALSE, connected |-> TRUE, read_fails |-> FALSE,
    doc |-> [ kind |-> "missing", curation_ids |-> <<>> ],
    doc_after |-> [ kind |-> "missing", curation_ids |-> <<>> ],
    raised |-> FALSE, ret |-> <<>> ]

InitCalls ==
  /\ cf_model = NoMatrix
  /\ gen_in = NoCall
  /\ result_doc = Pending
  /\ save_env = NoSave
  /\ fetch_in = NoFetch
  /\ fetched = <<>>
  /\ rule_call = NoRuleCall
  /\ rq_pc = "idle"
  /\ rq_in = [ cust_no |-> 0, reads |-> NoReads, failed |-> "none" ]
  /\ user_context = NoContext
  /\ initial_candidates_with_scores = <<>>
  /\ candidates_after_pre_rules = <<>>
  /\ final_ranked_items = <<>>
  /\ applied = <<>>
  /\ response = <<>>
  /\ post_call = NoPostCall
  /\ portfolio_call = NoPortfolioCall
  /\ InitShutdown
  /\ InitCoalescer
  /\ InitFrame
  /\ anonymous_call = NoAnonymousCall
  /\ post_lengths = <<>>

InitUnits == InitCalls /\ cf_call = CfIdle("jaccard")

\* one build attempt on the CF globals
BuildAttempt(table, all_item_ids, frame_fails) ==
  LET built == build_item_similarity(cf_call.metric, table, all_item_ids, frame_fails,
                                     cf_model)
      k == cf_call.n + 1
      maps_assigned == \E u \in DOMAIN table : table[u] # <<>>
  IN /\ cf_model' = built.model
     /\ cf_call' = [ cf_call EXCEPT
                       !.n = k,
                       !.last_ok = built.ok,
                       !.table = table,
                       !.all_item_ids = all_item_ids,
                       !.idmap_from = IF maps_assigned THEN k ELSE @,
                       !.sim_from = IF built.ok THEN k
                                    ELSE IF ~built.model.built THEN 0 ELSE @ ]

\* cf_utils.build_item_similarity(user_interactions), all_item_ids left out
BuildItemSimilarity ==
  /\ result_doc = Pending
  /\ ~cf_call.called
  /\ cf_call.n < MaxBuilds
  /\ \E table \in InteractionTables, frame_fails \in BOOLEAN :
       BuildAttempt(table, {}, frame_fails)
  /\ post_call' = post_call
  /\ UNCHANGED sideVars
  /\ UNCHANGED <<gen_in, result_doc, save_env, fetch_in, fetched, rule_call, liveVars>>
  /\ UNCHANGED batchVars

\* cf_utils.build_item_similarity(user_interactions, all_item_ids)
BuildItemSimilarityOnIds ==
  /\ result_doc = Pending
  /\ ~cf_call.called
  /\ cf_call.n < MaxBuilds
  /\ \E table \in InteractionTables, all_item_ids \in ItemIdArgs \ { {} },
        frame_fails \in BOOLEAN :
       BuildAttempt(table, all_item_ids, frame_fails)
  /\ post_call' = post_call
  /\ UNCHANGED sideVars
  /\ UNCHANGED <<gen_in, result_doc, save_env, fetch_in, fetched, rule_call, liveVars>>
  /\ UNCHANGED batchVars

\* histories and candidate sets of a scorer call
Histories == UNION { [1..n -> Items] : n \in 0..MaxHistory }

\* cf_utils.get_collaborative_filtering_scores(user_history_item_ids,
\* candidate_item_ids) on the CF globals as the builds left them
ScoreCandidates ==
  /\ ~cf_call.called
  /\ \E history \in Histories, candidates \in SUBSET Items :
       cf_call' = [ cf_call EXCEPT
                      !.called = TRUE,
                      !.history = history,
                      !.candidates = candidates,
                      !.ret = get_collaborative_filtering_scores(cf_model, history,
                                                                 candidates) ]
  /\ post_call' = post_call
  /\ UNCHANGED sideVars
  /\ UNCHANGED <<callVars, rule_call, liveVars>>
  /\ UNCHANGED batchVars

NextCF ==
  \/ BuildItemSimilarity
  \/ BuildItemSimilarityOnIds
  \/ ScoreCandidates

\* the pools a caller can pass or the local rules can produce
Pools == { S \in SUBSET Items : Cardinality(S) <= MaxRuleOut }

\* generate_candidate_for_user(user, global_candidates, cluster_candidates_map,
\* context) with the third argument as main() and test_batch_logic.py pass it
\* (a list) or as its signature declares it (a dict keyed by cluster id)
GenerateCandidate ==
  /\ result_doc = Pending
  /\ \E u \in UserIds, kind \in {"list", "dict"}, table \in InteractionTables,
        g \in Pools, c \in Pools, local_outcomes \in [1..3 -> RuleOutcomes] :
       \E order \in Orders(g \cup c \cup compute_local_candidates(local_outcomes)) :
         /\ gen_in' = [ user |-> u, kind |-> kind, global |-> g, cluster |-> c,
                        local |-> compute_local_candidates(local_outcomes),
                        table |-> table, order |-> order ]
         /\ result_doc' =
              generate_candidate_for_user(cfg, cf_model, table, UserRow(u), g,
                                          [ kind |-> kind, ids |-> c ],
                                          local_outcomes, order)
  /\ UNCHANGED <<cf_model, save_env, fetch_in, fetched, rule_call, liveVars>>
  /\ UNCHANGED batchVars
  /\ UNCHANGED pureVars
  /\ UNCHANGED sideVars

NextScore ==
  \/ BuildItemSimilarity
  \/ GenerateCandidate

\* --------------- save_results and the online read called on their own
\* The records a caller can hand to save_results for user u: the document
\* generate_candidate_for_user returns (integer cust_no, curation_list a
\* dict), and documents of the shape validate_candidate_results asks for
\* (str cust_no, a list of {curation_id, score} entries, some malformed).
StoreLists == { <<<<1, 2 * WeightDefault>>, <<2, WeightDefault>>>>, <<<<2, WeightDefault>>>> }

StoreRecords(u) ==
  { [ raised |-> FALSE, user |-> u, cust_no |-> IntVal(u), shape |-> "dict",
      curation_list |-> l, malformed |-> {} ] : l \in StoreLists }
  \cup
  { [ raised |-> FALSE, user |-> u, cust_no |-> StrVal(u), shape |-> "list",
      curation_list |-> l, malformed |-> m ] : l \in StoreLists, m \in { {}, {1} } }

\* the users of S in the order of the users frame
InOrder(S) == CHOOSE s \in Orders(S) : \A i, j \in DOMAIN s : i < j => s[i] < s[j]

\* the result lists: one record for each user of a set of users
ResultLists ==
  UNION { { [ i \in DOMAIN InOrder(S) |-> f[InOrder(S)[i]] ] :
              f \in { g \in [S -> UNION { StoreRecords(u) : u \in S }] :
                        \A u \in S : g[u] \in StoreRecords(u) } } :
          S \in SUBSET UserIds }

\* the persist step of main() on a result list: save_results(results, db)
SaveResults ==
  /\ clock <= MaxSaves
  /\ ~fetch_in.called
  /\ \E results \in ResultLists :
       \E env \in SaveEnvs(Len(validate_candidate_results(results))) :
         LET saved == main_save_results(results, user_candidate, fallback_file, env, clock)
         IN /\ final_results_to_save' = results
            /\ success' = saved.success
            /\ user_candidate' = saved.coll
            /\ fallback_file' = saved.file
            /\ save_ret' = saved.ret
            /\ save_env' = [ called |-> TRUE, pre_fail |-> env.pre_fail,
                             exhausted |-> \E b \in DOMAIN env.fails :
                                             env.fails[b] >= max_retries,
                             file_fail |-> env.file_fail ]
  /\ clock' = clock + 1
  /\ UNCHANGED <<cfg, pc, global_rule_results, global_candidates, other_candidates, computed>>
  /\ UNCHANGED <<cf_model, gen_in, result_doc, fetch_in, fetched, rule_call, liveVars>>
  /\ UNCHANGED pureVars
  /\ UNCHANGED sideVars

\* what the reads of one fetch find: the content collections hold no
\* document, or some, most recent first
ReadEnvs ==
  { r \in [ find_fail : BOOLEAN, hist_fail : BOOLEAN, curation_fail : BOOLEAN,
            curation_hist : { <<>>, <<3, 1>> }, curation : { <<>>, <<2>> } ] :
      /\ r.hist_fail => r.curation_hist # <<>>
      /\ r.curation_fail => r.curation # <<>> }

\* fetch_initial_candidates_with_scores(cust_no, db): the router passes an
\* int; the key of the documents save_results wrote is a str
FetchInitialCandidates ==
  /\ ~fetch_in.called
  /\ \E key \in { IntVal(u) : u \in UserIds } \cup { StrVal(u) : u \in UserIds },
        reads \in ReadEnvs :
       /\ fetch_in' = [ called |-> TRUE, cust_no |-> key, reads |-> reads ]
       /\ fetched' = fetch_initial_candidates_with_scores(key, user_candidate, reads)
  /\ UNCHANGED <<cf_model, gen_in, result_doc, save_env, rule_call, liveVars>>
  /\ UNCHANGED batchVars
  /\ UNCHANGED pureVars
  /\ UNCHANGED sideVars

NextStore ==
  \/ SaveResults
  \/ FetchInitialCandidates

\* ------------- ExcludeSeenItemsRule.apply called on its own (pre_filter_rules.py)
MaxLen == 3

\* candidate lists: every list of at most MaxLen ids, an id twice included
CandidateLists == UNION { [1..n -> Items] : n \in 0..MaxLen }

\* rule.apply(user_context, candidates) on a list and a seen_items_set
ApplyExcludeSeenItems ==
  /\ rule_call.n = 0
  /\ \E seen \in SUBSET Items, candidates \in CandidateLists :
       rule_call' = [ n |-> 1, seen |-> seen, first |-> candidates, arg |-> candidates,
                      ret |-> ExcludeSeenItemsRule([ seen_items_set |-> seen ], candidates) ]
  /\ UNCHANGED <<callVars, liveVars>>
  /\ UNCHANGED batchVars
  /\ UNCHANGED pureVars
  /\ UNCHANGED sideVars

\* rule.apply(user_context, ...) on the list the call before returned
ReapplyExcludeSeenItems ==
  /\ rule_call.n = 1
  /\ rule_call' = [ rule_call EXCEPT
                      !.n = 2,
                      !.arg = rule_call.ret,
                      !.ret = ExcludeSeenItemsRule([ seen_items_set |-> rule_call.seen ],
                                                   rule_call.ret) ]
  /\ UNCHANGED <<callVars, liveVars>>
  /\ UNCHANGED batchVars
  /\ UNCHANGED pureVars
  /\ UNCHANGED sideVars

NextPreRule ==
  \/ ApplyExcludeSeenItems
  \/ ReapplyExcludeSeenItems

\* owned_stock_returns as fetch_owned_stock_returns builds it: a record of
\* '1m_returns' and '1d_returns' for every owned stock, None where not found
NoReturn == [ has1m |-> FALSE, v1m |-> 0, has1d |-> FALSE, v1d |-> 0 ]
ReturnTables ==
  { [ st \in {1, 2} |-> NoReturn ],
    [ st \in {1, 2} |-> IF st = 1 THEN [ has1m |-> TRUE, v1m |-> 5, has1d |-> TRUE, v1d |-> 9 ]
                        ELSE [ has1m |-> FALSE, v1m |-> 0, has1d |-> TRUE, v1d |-> 7 ] ],
    [ st \in {1, 2} |-> [ has1m |-> TRUE, v1m |-> 5, has1d |-> FALSE, v1d |-> 0 ] ] }

\* ------------- the post-reorder rules called on their own (post_reorder_rules.py)
\* ranked_items arguments: every list of at most MaxLen (id, score) pairs
RankedLists == UNION { [1..n -> Items \X {Tenth, 2 * Tenth}] : n \in 0..MaxLen }

\* content_meta maps: no metadata, or a label for every item
PostMetas ==
  { <<>>,
    [ i \in Items |-> IF i = 1 THEN 1 ELSE IF i = 2 THEN 3 ELSE NoStock ],
    [ i \in Items |-> IF i = 1 THEN 2 ELSE 4 ] }

\* the owned set in an order of iteration, with the returns found for it
OwnedWithReturns ==
  { [ owned |-> <<>>, returns |-> <<>> ] }
  \cup { [ owned |-> o, returns |-> r ] : o \in { <<1, 2>>, <<2, 1>> }, r \in ReturnTables }

\* BoostUserStocksRule.apply(user_context, ranked_items)
ApplyBoostUserStocks ==
  /\ post_call.rule = "none"
  /\ \E owned \in { <<>>, <<1, 2>> }, recent \in { {}, {3} }, group1 \in { {}, {3, 4} },
        onboarding \in { {}, {1, 4} }, meta \in PostMetas, ranked_items \in RankedLists :
       LET ctx == [ NoContext EXCEPT !.owned_stocks = owned,
                                     !.recent_stocks_set = recent,
                                     !.group1_stocks_set = group1,
                                     !.onboarding_stocks_set = onboarding,
                                     !.content_meta = meta ]
       IN post_call' = [ rule |-> "BoostUserStocks", user_context |-> ctx,
                         arg |-> ranked_items,
                         ret |-> BoostUserStocksRule(ctx, ranked_items) ]
  /\ cf_call' = cf_call
  /\ UNCHANGED sideVars
  /\ UNCHANGED <<callVars, rule_call, liveVars>>
  /\ UNCHANGED batchVars

\* BoostTopReturnStockRule.apply(user_context, ranked_items)
ApplyBoostTopReturnStock ==
  /\ post_call.rule = "none"
  /\ \E o \in OwnedWithReturns, meta \in PostMetas, ranked_items \in RankedLists :
       LET ctx == [ NoContext EXCEPT !.owned_stocks = o.owned,
                                     !.owned_stock_returns = o.returns,
                                     !.content_meta = meta ]
       IN post_call' = [ rule |-> "BoostTopReturnStock", user_context |-> ctx,
                         arg |-> ranked_items,
                         ret |-> BoostTopReturnStockRule(ctx, ranked_items) ]
  /\ cf_call' = cf_call
  /\ UNCHANGED sideVars
  /\ UNCHANGED <<callVars, rule_call, liveVars>>
  /\ UNCHANGED batchVars

\* AddScoreNoiseRule.apply(user_context, ranked_items)
ApplyAddScoreNoise ==
  /\ post_call.rule = "none"
  /\ \E ranked_items \in RankedLists :
       \E noise \in [DOMAIN ranked_items -> NoiseLevels] :
         post_call' = [ rule |-> "AddScoreNoise", user_context |-> NoContext,
                        arg |-> ranked_items,
                        ret |-> AddScoreNoiseRule(noise, ranked_items) ]
  /\ cf_call' = cf_call
  /\ UNCHANGED sideVars
  /\ UNCHANGED <<callVars, rule_call, liveVars>>
  /\ UNCHANGED batchVars

\* MarketCapRecencyRandomRule.apply(user_context, ranked_items)
ApplyMarketCapRecencyRandom ==
  /\ post_call.rule = "none"
  /\ \E ranked_items \in RankedLists :
       \E bonus \in [DOMAIN ranked_items -> BonusLevels] :
         post_call' = [ rule |-> "MarketCapRecencyRandom", user_context |-> NoContext,
                        arg |-> ranked_items,
                        ret |-> MarketCapRecencyRandomRule(bonus, ranked_items) ]
  /\ cf_call' = cf_call
  /\ UNCHANGED sideVars
  /\ UNCHANGED <<callVars, rule_call, liveVars>>
  /\ UNCHANGED batchVars

NextPostRule ==
  \/ ApplyBoostUserStocks
  \/ ApplyBoostTopReturnStock
  \/ ApplyAddScoreNoise
  \/ ApplyMarketCapRecencyRandom

\* ------------------ the online request (get_live_recommendations)
\* user_candidate as a request can find it: no document, a document whose
\* curation_list is the dict {id: score} the reader asks for (empty or not),
\* or a document save_results wrote.
\* a curation_list in the order the batch wrote its dict: not sorted
OnlineScores ==
  [ i \in Items |-> <<NItems + 1 - i, IF i = NItems THEN 2 * Tenth ELSE Tenth>> ]

DictDoc(u, scores) ==
  [ cust_no |-> IntVal(u), shape |-> "dict", curation_list |-> scores,
    create_dt |-> 0, modi_dt |-> 0 ]

OnlineCollections ==
  { {} }
  \cup { { DictDoc(u, l) } : u \in UserIds, l \in { <<>>, OnlineScores } }
  \cup { UpdateOneUpsert({}, [ cust_no |-> StrVal(u), curation_list |-> OnlineScores ], 0) :
           u \in UserIds }

\* the label of the curation documents: content 1 is about stock 1, content 2
\* about stock 3, the other contents carry no label
ContentLabels == [ i \in Items |-> IF i = 1 THEN 1 ELSE IF i = 2 THEN 3 ELSE NoStock ]

\* what a request finds behind its context fetch: the seen items of the
\* log, the owned set of fetch_user_stock_lists in its order of iteration,
\* and the returns of the quote index
ContextData ==
  [ seen : { {}, {1}, Items }, owned : { <<1, 2>>, <<2, 1>> }, returns : ReturnTables ]

\* the dependency that fails during a request, if any: a sub-fetch that
\* raises ("profile", "seen", "stocks", "quotes"), or a client that
\* startup_event left unconnected ("opensearch", "mongo")
Dependencies == { "none", "profile", "seen", "stocks", "quotes", "opensearch", "mongo" }

\* fetch_user_context_data(cust_no): get_os_client() raises RuntimeError when
\* the client is None; a failed sub-fetch gives the default of its field
fetch_user_context_data(failed, data) ==
  IF failed = "opensearch"
  THEN [ raised |-> TRUE, context |-> NoContext ]
  ELSE [ raised |-> FALSE,
         context |->
           [ seen_items_set |-> IF failed = "seen" THEN {} ELSE data.seen,
             owned_stocks |-> IF failed = "stocks" THEN <<>> ELSE data.owned,
             recent_stocks_set |-> IF failed = "stocks" THEN {} ELSE {3},
             group1_stocks_set |-> IF failed = "stocks" THEN {} ELSE {4},
             onboarding_stocks_set |-> IF failed = "stocks" THEN {} ELSE {1},
             owned_stock_returns |->
               IF failed = "stocks" THEN <<>>
               ELSE IF failed = "quotes" THEN [ st \in Range(data.owned) |-> NoReturn ]
               ELSE data.returns,
             content_meta |-> <<>> ] ]

\* get_live_recommendations up to the first rule: get_mongo_db(), then the
\* context and the initial candidates are gathered.  A RuntimeError of a
\* client getter leaves the function, and the router answers 503.  Without
\* candidates the answer is [].
LiveFetch ==
  /\ rq_pc = "idle"
  /\ \E cust_no \in UserIds, failed \in Dependencies, data \in ContextData,
        reads \in ReadEnvs :
       LET fetched_context == fetch_user_context_data(failed, data)
           raised == failed = "mongo" \/ fetched_context.raised
           initial == IF raised THEN <<>>
                      ELSE fetch_initial_candidates_with_scores(IntVal(cust_no),
                                                                user_candidate, reads)
       IN /\ rq_in' = [ cust_no |-> cust_no, reads |-> IF raised THEN NoReads ELSE reads,
                        failed |-> failed ]
          /\ user_context' = fetched_context.context
          /\ initial_candidates_with_scores' = initial
          /\ candidates_after_pre_rules' = [ i \in DOMAIN initial |-> initial[i][1] ]
          /\ rq_pc' = IF raised THEN "error" ELSE IF initial = <<>> THEN "done" ELSE "pre"
  /\ response' = <<>>
  /\ UNCHANGED <<final_ranked_items, applied>>
  /\ UNCHANGED <<callVars, rule_call>>
  /\ UNCHANGED batchVars
  /\ UNCHANGED pureVars
  /\ UNCHANGED sideVars

\* one turn of the loop over PRE_RANKING_RULES: a rule that raises leaves the
\* list as it was.  After the last rule: [] when no candidate is left,
\* otherwise the scores are put back and the metadata is fetched (an empty
\* map when that read fails).
LivePreRule ==
  /\ rq_pc = "pre"
  /\ \E raises \in BOOLEAN, meta_fail \in BOOLEAN :
       LET k == Len(applied) + 1
           after == IF raises THEN candidates_after_pre_rules
                    ELSE ExcludeSeenItemsRule(user_context, candidates_after_pre_rules)
           last == (k = Len(PRE_RANKING_RULES))
           found == IF meta_fail THEN {} ELSE Range(after)
       IN /\ applied' = Append(applied, [ rule |-> PRE_RANKING_RULES[k], raised |-> raises ])
          /\ candidates_after_pre_rules' = after
          /\ rq_pc' = IF ~last THEN "pre" ELSE IF after = <<>> THEN "done" ELSE "post"
          /\ final_ranked_items' =
               IF last /\ after # <<>>
               THEN SelectPairs(initial_candidates_with_scores, Range(after))
               ELSE final_ranked_items
          /\ user_context' =
               IF last /\ after # <<>>
               THEN [ user_context EXCEPT !.content_meta = [ i \in found |-> ContentLabels[i] ] ]
               ELSE user_context
  /\ UNCHANGED <<rq_in, initial_candidates_with_scores, response>>
  /\ UNCHANGED <<callVars, rule_call>>
  /\ UNCHANGED batchVars
  /\ UNCHANGED pureVars
  /\ UNCHANGED sideVars

\* one turn of the loop over POST_RANKING_RULES: a rule that raises leaves the
\* list as it was.  After the last rule the list is sorted by score and cut
\* to RECOMMENDATION_COUNT.
LivePostRule ==
  /\ rq_pc = "post"
  /\ \E raises \in BOOLEAN, noise \in [DOMAIN final_ranked_items -> NoiseLevels] :
       LET k == Len(applied) - Len(PRE_RANKING_RULES) + 1
           after == IF raises THEN final_ranked_items
                    ELSE ApplyPostRule(POST_RANKING_RULES[k], user_context, noise,
                                       final_ranked_items)
           last == (k = Len(POST_RANKING_RULES))
       IN /\ applied' = Append(applied, [ rule |-> POST_RANKING_RULES[k], raised |-> raises ])
          /\ final_ranked_items' = IF last THEN SortByScoreDesc(after) ELSE after
          /\ response' = IF last THEN Take(SortByScoreDesc(after), RECOMMENDATION_COUNT)
                         ELSE response
          /\ rq_pc' = IF last THEN "done" ELSE "post"
  /\ UNCHANGED <<rq_in, user_context, initial_candidates_with_scores,
                 candidates_after_pre_rules>>
  /\ UNCHANGED <<callVars, rule_call>>
  /\ UNCHANGED batchVars
  /\ UNCHANGED pureVars
  /\ UNCHANGED sideVars

NextOnline ==
  \/ LiveFetch
  \/ LivePreRule
  \/ LivePostRule

\* everything an engine turn over any post-ranking rule leaves alone
exceptEngine ==
  <<batchVars, callVars, rule_call, pureVars, portfolio_call, shutdownVars, coalescerVars,
    frameVars, anonymous_call>>

\* one turn of the loop over POST_RANKING_RULES with a rule that may return
\* a shorter list: the engine assigns whatever apply returns and
\* goes on; only an exception of the rule keeps the list as it was
LivePostRuleOfAnyLength ==
  /\ rq_pc = "post"
  /\ \E raises \in BOOLEAN, noise \in [DOMAIN final_ranked_items -> NoiseLevels] :
       \E returned \in PostRuleReturns(ApplyPostRule(
                         POST_RANKING_RULES[Len(applied) - Len(PRE_RANKING_RULES) + 1],
                         user_context, noise, final_ranked_items)) :
         LET k == Len(applied) - Len(PRE_RANKING_RULES) + 1
             after == IF raises THEN final_ranked_items ELSE returned
             last == (k = Len(POST_RANKING_RULES))
         IN /\ applied' = Append(applied, [ rule |-> POST_RANKING_RULES[k], raised |-> raises ])
            /\ post_lengths' = Append(post_lengths, <<Len(final_ranked_items), Len(after)>>)
            /\ final_ranked_items' = IF last THEN SortByScoreDesc(after) ELSE after
            /\ response' = IF last THEN Take(SortByScoreDesc(after), RECOMMENDATION_COUNT)
                           ELSE response
            /\ rq_pc' = IF last THEN "done" ELSE "post"
  /\ UNCHANGED <<rq_in, user_context, initial_candidates_with_scores,
                 candidates_after_pre_rules>>
  /\ UNCHANGED exceptEngine

NextEngine ==
  \/ LiveFetch
  \/ LivePreRule
  \/ LivePostRuleOfAnyLength

\* ------------------ fetch_user_portfolio called by a batch worker
\* the call: validate_customer_id, then the session with its retry budget
FetchUserPortfolio ==
  /\ portfolio_call.pc = "idle"
  /\ \E valid \in BOOLEAN :
       portfolio_call' =
         IF valid
         THEN [ portfolio_call EXCEPT !.pc = "sending", !.valid = TRUE, !.total = RetryTotal ]
         ELSE [ portfolio_call EXCEPT !.pc = "done", !.ret = "empty" ]
  /\ UNCHANGED exceptPortfolio

\* one attempt of session.post, and the rest of the function when it was the
\* last one
SessionPost ==
  /\ portfolio_call.pc = "sending"
  /\ \E o \in AttemptOutcomes : portfolio_call' = send(portfolio_call, o)
  /\ UNCHANGED exceptPortfolio

NextPortfolio ==
  \/ FetchUserPortfolio
  \/ SessionPost

\* ------------- the batch process and its signals (candidate_generation.py)
\* SIGINT or SIGTERM is delivered: the interpreter runs signal_handler on top
\* of whatever the main thread is executing
Signal ==
  /\ stack # <<>>
  /\ shutdown.signals < MaxSignals
  /\ stack' = Append(stack, Frame("signal_handler", "entry"))
  /\ shutdown' = [ shutdown EXCEPT !.signals = @ + 1 ]
  /\ UNCHANGED <<cleanup_performed, mongo_client, os_client, oracle_pool>>
  /\ UNCHANGED exceptShutdown

\* main(): the handlers are registered; the try block connects and works,
\* the finally block cleans up unless cleanup_performed and ends the process
MainStep ==
  /\ stack # <<>>
  /\ Top(stack).fn = "main"
  /\ LET at == Top(stack).pc
     IN \/ /\ at = "start"
           /\ stack' = SetTop(stack, "connect")
           /\ UNCHANGED <<mongo_client, os_client, oracle_pool, shutdown>>
        \/ /\ at = "connect"
           /\ \E ok \in BOOLEAN :
                IF ok
                THEN /\ stack' = SetTop(stack, "work")
                     /\ mongo_client' = Connected
                     /\ os_client' = Connected
                     /\ oracle_pool' = Connected
                     /\ shutdown' = [ shutdown EXCEPT !.connected = TRUE ]
                ELSE /\ stack' = SetTop(stack, "finally")
                     /\ UNCHANGED <<mongo_client, os_client, oracle_pool, shutdown>>
        \/ /\ at = "work"
           /\ stack' = SetTop(stack, "finally")
           /\ UNCHANGED <<mongo_client, os_client, oracle_pool, shutdown>>
        \/ /\ at = "finally"
           /\ stack' = IF ~cleanup_performed THEN Call(stack, "log", "cleanup_resources")
                       ELSE SetTop(stack, "log")
           /\ UNCHANGED <<mongo_client, os_client, oracle_pool, shutdown>>
        \/ /\ at = "log"
           /\ stack' = <<>>
           /\ UNCHANGED <<mongo_client, os_client, oracle_pool, shutdown>>
  /\ UNCHANGED cleanup_performed
  /\ UNCHANGED exceptShutdown

\* signal_handler(signum, frame)
HandlerStep ==
  /\ stack # <<>>
  /\ Top(stack).fn = "signal_handler"
  /\ LET at == Top(stack).pc
     IN \/ /\ at = "entry"
           /\ stack' = IF ~cleanup_performed THEN Call(stack, "set", "cleanup_resources")
                       ELSE SetTop(stack, "exit")
           /\ UNCHANGED cleanup_performed
        \/ /\ at = "set"
           /\ cleanup_performed' = TRUE
           /\ stack' = SetTop(stack, "exit")
        \/ /\ at = "exit"
           /\ stack' = SystemExit(stack)
           /\ UNCHANGED cleanup_performed
  /\ UNCHANGED <<mongo_client, os_client, oracle_pool, shutdown>>
  /\ UNCHANGED exceptShutdown

\* cleanup_resources(): close_mongo, close_opensearch, close_oracle inside one
\* try whose handler logs; close_oracle catches the error of its own close
CleanupStep ==
  /\ stack # <<>>
  /\ Top(stack).fn = "cleanup_resources"
  /\ LET at == Top(stack).pc
     IN \/ /\ at = "entry"
           /\ stack' = SetTop(stack, IF mongo_client.ref THEN "mongo_close" ELSE "close_opensearch")
           /\ shutdown' = [ shutdown EXCEPT !.cleanup_runs = @ + 1 ]
           /\ UNCHANGED <<mongo_client, os_client, oracle_pool>>
        \/ /\ at = "mongo_close"
           /\ \E raises \in BOOLEAN :
                IF raises
                THEN /\ stack' = Pop(stack)
                     /\ mongo_client' = [ mongo_client EXCEPT !.closes = @ + 1 ]
                     /\ shutdown' = [ shutdown EXCEPT !.raised = @ \cup {"mongo"} ]
                ELSE /\ stack' = SetTop(stack, "mongo_clear")
                     /\ mongo_client' = [ mongo_client EXCEPT !.open = FALSE, !.closes = @ + 1 ]
                     /\ UNCHANGED shutdown
           /\ UNCHANGED <<os_client, oracle_pool>>
        \/ /\ at = "mongo_clear"
           /\ mongo_client' = [ mongo_client EXCEPT !.ref = FALSE ]
           /\ stack' = SetTop(stack, "close_opensearch")
           /\ UNCHANGED <<os_client, oracle_pool, shutdown>>
        \/ /\ at = "close_opensearch"
           /\ os_client' = IF os_client.ref
                           THEN [ os_client EXCEPT !.ref = FALSE, !.open = FALSE, !.closes = @ + 1 ]
                           ELSE os_client
           /\ stack' = IF oracle_pool.ref THEN SetTop(stack, "oracle_close") ELSE Pop(stack)
           /\ UNCHANGED <<mongo_client, oracle_pool, shutdown>>
        \/ /\ at = "oracle_close"
           /\ \E raises \in BOOLEAN :
                IF raises
                THEN /\ oracle_pool' = [ oracle_pool EXCEPT !.closes = @ + 1 ]
                     /\ shutdown' = [ shutdown EXCEPT !.raised = @ \cup {"oracle"} ]
                ELSE /\ oracle_pool' = [ oracle_pool EXCEPT !.open = FALSE, !.closes = @ + 1 ]
                     /\ UNCHANGED shutdown
           /\ stack' = SetTop(stack, "oracle_clear")
           /\ UNCHANGED <<mongo_client, os_client>>
        \/ /\ at = "oracle_clear"
           /\ oracle_pool' = [ oracle_pool EXCEPT !.ref = FALSE ]
           /\ stack' = Pop(stack)
           /\ UNCHANGED <<mongo_client, os_client, shutdown>>
  /\ UNCHANGED cleanup_performed
  /\ UNCHANGED exceptShutdown

NextShutdown ==
  \/ Signal
  \/ MainStep
  \/ HandlerStep
  \/ CleanupStep

\* ------------------------- the request queue and batch_processor()
\* a caller puts (user_id, response_future) in request_queue
Enqueue ==
  /\ Len(futures) < MaxRequests
  /\ \E u \in UserIds :
       futures' = Append(futures, [ user_id |-> u, state |-> "pending", value |-> 0,
                                    failed |-> "none", cancelled |-> FALSE ])
  /\ request_queue' = Append(request_queue, Len(futures) + 1)
  /\ UNCHANGED dispatcher
  /\ UNCHANGED exceptCoalescer

\* a caller awaiting its future is cancelled: the future is cancelled
Cancel ==
  /\ \E r \in DOMAIN futures :
       /\ ~Done(futures[r])
       /\ futures' = [ futures EXCEPT ![r].state = "cancelled", ![r].cancelled = TRUE ]
  /\ UNCHANGED <<request_queue, dispatcher>>
  /\ UNCHANGED exceptCoalescer

\* the sleep is over: the queue is drained into current_batch
Drain ==
  /\ dispatcher.pc = "sleep"
  /\ request_queue # <<>>
  /\ dispatcher' = [ pc |-> "fetch", current_batch |-> request_queue, k |-> 1, kept |-> <<>> ]
  /\ request_queue' = <<>>
  /\ UNCHANGED futures
  /\ UNCHANGED exceptCoalescer

\* one turn of the loop over current_batch: fetch_candidates for the entry
FetchEntry ==
  /\ dispatcher.pc = "fetch"
  /\ LET r == dispatcher.current_batch[dispatcher.k]
         last == dispatcher.k = Len(dispatcher.current_batch)
         after(kept) == IF ~last THEN "fetch" ELSE IF kept # <<>> THEN "rank" ELSE "sleep"
     IN \E outcome \in {"candidates", "empty", "raises"} :
          IF outcome = "candidates"
          THEN /\ futures' = futures
               /\ dispatcher' = [ dispatcher EXCEPT !.kept = Append(@, r), !.k = @ + 1,
                                                    !.pc = after(Append(dispatcher.kept, r)) ]
          ELSE IF Done(futures[r])
          THEN /\ futures' = [ futures EXCEPT ![r].failed = "fetch" ]
               /\ dispatcher' = [ dispatcher EXCEPT !.pc = "dead" ]
          ELSE /\ futures' = [ SetException(futures, r) EXCEPT ![r].failed = "fetch" ]
               /\ dispatcher' = [ dispatcher EXCEPT !.k = @ + 1, !.pc = after(dispatcher.kept) ]
  /\ UNCHANGED request_queue
  /\ UNCHANGED exceptCoalescer

\* batch_rank_candidates on the entries kept, then the results are set;
\* fails_at > 0: rank_candidates raises for that entry of the batch
RankBatch ==
  /\ dispatcher.pc = "rank"
  /\ \E fails_at \in 0..Len(dispatcher.kept) :
       futures' =
         IF fails_at = 0 THEN SetResults(futures, dispatcher.kept, 1)
         ELSE [ FailPending(futures, dispatcher.kept)
                  EXCEPT ![dispatcher.kept[fails_at]].failed = "rank" ]
  /\ dispatcher' = [ dispatcher EXCEPT !.pc = "sleep" ]
  /\ UNCHANGED request_queue
  /\ UNCHANGED exceptCoalescer

NextCoalescer ==
  \/ Enqueue
  \/ Cancel
  \/ Drain
  \/ FetchEntry
  \/ RankBatch

\* ------------------- the batch rules applied to base_context
\* main(): contents_list = contents_ddf.compute().to_dict('records')
LoadContents ==
  /\ ~rule_effect.loaded
  /\ \E contents \in ContentLists : contents_list' = contents
  /\ rule_effect' = [ rule_effect EXCEPT !.loaded = TRUE ]
  /\ UNCHANGED exceptFrame

\* GlobalTopLikedContentRule().apply(base_context)
ApplyGlobalTopLikedContent ==
  /\ rule_effect.loaded
  /\ LET r == GlobalTopLikedContentRule(contents_list)
     IN /\ contents_list' = r.contents_list
        /\ rule_effect' = [ loaded |-> TRUE, rule |-> "GlobalTopLikedContentRule",
                            contents_before |-> contents_list, contents_after |-> r.contents_list,
                            stocks_before |-> <<>>, stocks_after |-> <<>>, ret |-> r.ret ]
  /\ UNCHANGED exceptFrame

\* GlobalStockTopReturnRule().apply(context), the fetch returning stock_data
ApplyGlobalStockTopReturn ==
  /\ rule_effect.loaded
  /\ \E stock_data \in StockDatas :
       LET r == GlobalStockTopReturnRule(contents_list, stock_data)
       IN rule_effect' = [ loaded |-> TRUE, rule |-> "GlobalStockTopReturnRule",
                           contents_before |-> contents_list, contents_after |-> contents_list,
                           stocks_before |-> stock_data, stocks_after |-> r.stock_data,
                           ret |-> r.ret ]
  /\ UNCHANGED contents_list
  /\ UNCHANGED exceptFrame

\* LocalRelatedContentRule().apply(user, context)
ApplyLocalRelatedContent ==
  /\ rule_effect.loaded
  /\ \E owned_stocks \in { <<>>, <<1>>, <<1, 2>> } :
       LET r == LocalRelatedContentRule(contents_list, owned_stocks)
       IN /\ contents_list' = r.contents_list
          /\ rule_effect' = [ loaded |-> TRUE, rule |-> "LocalRelatedContentRule",
                              contents_before |-> contents_list, contents_after |-> r.contents_list,
                              stocks_before |-> <<>>, stocks_after |-> <<>>, ret |-> r.ret ]
  /\ UNCHANGED exceptFrame

NextFrame ==
  \/ LoadContents
  \/ ApplyGlobalTopLikedContent
  \/ ApplyGlobalStockTopReturn
  \/ ApplyLocalRelatedContent

\* ------------------- one anonymous request
GetAnonymousRecommendations ==
  /\ \E connected \in BOOLEAN, read_fails \in BOOLEAN, doc \in AnonymousDocs :
       \E order \in Shuffles(doc.curation_ids) :
         LET r == get_anonymous_recommendations(connected, read_fails, doc, order)
         IN anonymous_call' = [ called |-> TRUE, connected |-> connected,
                                read_fails |-> read_fails, doc |-> doc, doc_after |-> r.doc,
                                raised |-> r.raised, ret |-> r.ret ]
  /\ UNCHANGED exceptAnonymous

NextAnonymous ==
  \/ GetAnonymousRecommendations

vars == <<batchVars, unitVars>>

Init == InitBatch /\ InitUnits

\* the batch run
Spec == Init /\ [][NextBatch]_vars

\* the per-user stage as a function of its arguments
SpecScore == Init /\ [][NextScore]_vars

\* the writer of user_candidate and its reader
SpecStore == Init /\ [][NextStore]_vars

\* the pre-filter rule as a function of its arguments
SpecPreRule == Init /\ [][NextPreRule]_vars

\* a post-reorder rule as a function of its arguments
SpecPostRule == Init /\ [][NextPostRule]_vars

\* builds of the CF model and a scorer call, under either metric
InitCF == InitBatch /\ InitCalls /\ cf_call \in { CfIdle(metric) : metric \in Metrics }

SpecCF == InitCF /\ [][NextCF]_vars

\* one online request on a user_candidate collection
InitOnline == InitRun /\ user_candidate \in OnlineCollections /\ InitUnits

SpecOnline == InitOnline /\ [][NextOnline]_vars

\* one fetch_user_portfolio call
SpecPortfolio == Init /\ [][NextPortfolio]_vars

\* one batch process from the registration of its signal handlers to its end
SpecShutdown == Init /\ [][NextShutdown]_vars

\* the request queue with its dispatcher task running
SpecCoalescer == Init /\ [][NextCoalescer]_vars

\* the batch rules applied, in any order, to the context of one run
SpecFrame == Init /\ [][NextFrame]_vars

\* online requests served with post-ranking rules of any behaviour
SpecEngine == InitOnline /\ [][NextEngine]_vars

\* anonymous requests
SpecAnonymous == Init /\ [][NextAnonymous]_vars

OtherWeight(c) ==
  IF "other" \in DOMAIN c.source_weights THEN c.source_weights["other"] ELSE 0

\* the CF score of candidate c for the call recorded in gen_in
CfScoreOf(c) ==
  LET scores == get_collaborative_filtering_scores(
                  cf_model, gen_in.table[gen_in.user],
                  gen_in.global \cup gen_in.cluster \cup gen_in.local)
  IN IF gen_in.table[gen_in.user] # <<>> /\ c \in DOMAIN scores THEN scores[c] ELSE 0

\* C2: generate_candidate_for_user returns a document in which the score of
\* every candidate c is w_global*[c in global] + w_local*[c in local]
\* + w_other*[c in other] + CF_WEIGHT*cf_score(c).
C2_ScoreIsWeightedSum ==
  gen_in.kind # "none" =>
    /\ ~result_doc.raised
    /\ \A i \in DOMAIN result_doc.curation_list :
         LET c == result_doc.curation_list[i][1]
         IN result_doc.curation_list[i][2] =
              Flag(c \in gen_in.global) * SourceWeight(cfg, "global")
              + Flag(c \in gen_in.local) * SourceWeight(cfg, "local")
              + Flag(c \in gen_in.cluster) * OtherWeight(cfg)
              + cfg.cf_weight * CfScoreOf(c)

\* the stage was called with an item that is in the other pool only
C2_OtherOnlyItemScored ==
  /\ gen_in.kind # "none"
  /\ gen_in.cluster \ (gen_in.global \cup gen_in.local) # {}

\* ---- C3
\* C3: when the worker of a user failed, the batch run still reaches its
\* persist step, and every other user's record is computed and, when it
\* has candidates, handed to save_results.
C3_WorkerFailureDoesNotAbort ==
  (pc = "done" /\ \E u \in UserIds : computed[u].raised) =>
    /\ success \/ save_ret # "none"
    /\ \A u \in UserIds :
         ~computed[u].raised =>
           /\ computed[u] # Pending
           /\ computed[u].curation_list # <<>> =>
                computed[u] \in Range(final_results_to_save)

\* a run has ended in which a worker had failed
C3_RunEndedAfterWorkerFailure ==
  pc = "done" /\ \E u \in UserIds : computed[u].raised

\* ---- C4
\* C4: once save_results has written a record for a cust_no, the reader
\* called for that cust_no returns the ids and scores of the record.
C4_RoundTrip ==
  (fetch_in.called /\ ~fetch_in.reads.find_fail) =>
    \A d \in user_candidate :
      d.cust_no.v = fetch_in.cust_no.v => fetched = d.curation_list

\* the reader was called for a cust_no save_results has written
C4_ReadAfterWrite ==
  /\ fetch_in.called
  /\ ~fetch_in.reads.find_fail
  /\ \E d \in user_candidate : d.cust_no.v = fetch_in.cust_no.v

\* ---- C5
\* the last save_results call had validated records and a batch whose
\* max_retries write attempts all raised
RetriesExhausted ==
  /\ save_env.called
  /\ save_env.exhausted
  /\ ~save_env.pre_fail
  /\ ~save_env.file_fail
  /\ validate_candidate_results(final_results_to_save) # <<>>

\* C5: when every write attempt of a batch fails, save_results writes the
\* validated records to the fallback file and returns its degraded result
\* instead of raising, and the run does not fail.
C5_ExhaustedRetriesFallBack ==
  RetriesExhausted =>
    /\ save_ret = "False"
    /\ fallback_file = validate_candidate_results(final_results_to_save)
    /\ success

\* a save whose retries were exhausted has happened
C5_RetriesWereExhausted == RetriesExhausted

\* ---- C6
\* the request's cust_no has no user_candidate record, or one whose
\* curation_list is empty
NoCandidateRecord ==
  \A d \in user_candidate :
    d.cust_no = IntVal(rq_in.cust_no) => d.curation_list = <<>>

\* neither content collection gave the fallback a document
NoFallbackRows ==
  /\ rq_in.reads.hist_fail \/ rq_in.reads.curation_hist = <<>>
  /\ rq_in.reads.curation_fail \/ rq_in.reads.curation = <<>>

DeclaredRuleOrder ==
  <<"ExcludeSeenItems", "MarketCapRecencyRandom", "BoostUserStocks",
    "BoostTopReturnStock", "AddScoreNoise">>

\* C7: a request that ranks candidates has applied ExcludeSeenItems,
\* MarketCapRecencyRandom, BoostUserStocks, BoostTopReturnStock and
\* AddScoreNoise, in this order and each once.
C7_RulesInDeclaredOrder ==
  (rq_pc = "done" /\ final_ranked_items # <<>>) =>
    [ i \in DOMAIN applied |-> applied[i].rule ] = DeclaredRuleOrder

\* a request went through both rule loops
C7_RequestRanked ==
  rq_pc = "done" /\ final_ranked_items # <<>> /\ Len(applied) > Len(PRE_RANKING_RULES)

\* ---- C8
\* C8: the global pool holds the outputs of every rule that did not raise.
C8_FailedRuleLosesOnlyItsOwn ==
  global_rule_results # <<>> =>
    global_candidates =
      UNION { global_rule_results[i].ids :
                i \in { j \in DOMAIN global_rule_results : ~global_rule_results[j].raised } }

\* one global rule raised and another returned candidates
C8_OneRuleRaised ==
  /\ global_rule_results # <<>>
  /\ \E i, j \in DOMAIN global_rule_results :
       /\ global_rule_results[i].raised
       /\ ~global_rule_results[j].raised
       /\ global_rule_results[j].ids # {}

\* ---- C9
Occurrences(s, x) == Cardinality({ i \in DOMAIN s : s[i] = x })

\* out is s with some entries left out
IsSubsequence(out, s) ==
  \E f \in [DOMAIN out -> DOMAIN s] :
    /\ \A i, j \in DOMAIN out : i < j => f[i] < f[j]
    /\ \A i \in DOMAIN out : out[i] = s[f[i]]

\* C9: what ExcludeSeenItems returns holds no seen id, holds every other id
\* as often as the input does, in the input's order, and is the input itself
\* when seen_items is empty.
C9_ExcludeSeenIsExactFilter ==
  rule_call.n >= 1 =>
    /\ \A i \in DOMAIN rule_call.ret : rule_call.ret[i] \notin rule_call.seen
    /\ \A x \in Items \ rule_call.seen :
         Occurrences(rule_call.ret, x) = Occurrences(rule_call.arg, x)
    /\ IsSubsequence(rule_call.ret, rule_call.arg)
    /\ rule_call.seen = {} => rule_call.ret = rule_call.arg

\* the rule dropped a seen id from between two ids it kept
C9_DroppedFromTheMiddle ==
  /\ rule_call.n = 1
  /\ Len(rule_call.arg) = 3
  /\ rule_call.arg[2] \in rule_call.seen
  /\ Len(rule_call.ret) = 2
  /\ rule_call.ret[1] # rule_call.ret[2]

\* ---- C10
\* C10: ExcludeSeenItems applied to its own output, with the same context,
\* returns that output.
C10_ExcludeSeenIdempotent ==
  rule_call.n = 2 => rule_call.ret = rule_call.arg

\* the rule was applied to an output from which it had dropped an id
C10_AppliedTwice ==
  /\ rule_call.n = 2
  /\ Len(rule_call.ret) < Len(rule_call.first)
  /\ rule_call.ret # <<>>

\* ---- C14
\* C14: whenever the similarity matrix is set, each stored cell (i, j) has
\* its mirror (j, i) stored with the same value, under the jaccard and under
\* the cosine metric.
C14_SimilaritySymmetric ==
  cf_model.built =>
    \A c \in DOMAIN cf_model.sim :
      /\ <<c[2], c[1]>> \in DOMAIN cf_model.sim
      /\ cf_model.sim[<<c[2], c[1]>>] = cf_model.sim[c]

\* a cosine build stored a similarity strictly between 0 and 1 for two
\* different items
C14_CosinePairStored ==
  /\ cf_call.metric = "cosine"
  /\ cf_call.last_ok
  /\ \E c \in DOMAIN cf_model.sim :
       c[1] # c[2] /\ cf_model.sim[c] > 0 /\ cf_model.sim[c] < Unit

\* ---- C15
\* the item an index of the id map stands for
ItemAt(m, x) == CHOOSE i \in DOMAIN m.idmap : m.idmap[i] = x

\* C15: after a completed jaccard build every stored cell belongs to two
\* different items that at least CF_MIN_CO_OCCURRENCE users share, and holds
\* |users(i) & users(j)| / |users(i) | users(j)|; no cell (i, i) is stored.
C15_JaccardEntries ==
  (cf_call.metric = "jaccard" /\ cf_call.last_ok) =>
    \A c \in DOMAIN cf_model.sim :
      LET i == ItemAt(cf_model, c[1])
          j == ItemAt(cf_model, c[2])
      IN /\ i # j
         /\ CoOccurrence(cf_call.table, i, j) >= CF_MIN_CO_OCCURRENCE
         /\ cf_model.sim[c] =
              (CoOccurrence(cf_call.table, i, j) * Unit) \div UnionCount(cf_call.table, i, j)

\* a completed jaccard build stored a cell for two different items
C15_JaccardPairStored ==
  /\ cf_call.metric = "jaccard"
  /\ cf_call.last_ok
  /\ \E c \in DOMAIN cf_model.sim : c[1] # c[2]

\* ---- C16
\* sim(i, c) as the matrix stores it, 0 when it is missing
SimOf(m, i, c) ==
  IF i \in DOMAIN m.idmap /\ c \in DOMAIN m.idmap
  THEN MatrixCell(m, m.idmap[c], m.idmap[i])
  ELSE 0

\* the scores of the candidates over the CF_USER_HISTORY_LIMIT most recent
\* items of a history that lists the most recent item first
RecentHistoryScores(m, history, candidates) ==
  LET recent == Range(Take(history, CF_USER_HISTORY_LIMIT))
      total(c) == SumOver(recent, [ i \in recent |-> SimOf(m, i, c) ])
      scored == { c \in candidates : total(c) > 0 }
  IN [ c \in scored |-> total(c) ]

\* C16: on a built model the scorer returns, for each candidate, the sum of
\* sim(i, c) over the CF_USER_HISTORY_LIMIT most recent history items (the
\* history lists the most recent first), leaves out the candidates whose sum
\* is not positive, and returns nothing for an empty history.
C16_ScoreIsSumOverRecentHistory ==
  (cf_call.called /\ cf_model.built) =>
    cf_call.ret = RecentHistoryScores(cf_model, cf_call.history, cf_call.candidates)

\* the scorer gave a score on a history longer than CF_USER_HISTORY_LIMIT
C16_ScoredOnLongHistory ==
  /\ cf_call.called
  /\ Len(cf_call.history) > CF_USER_HISTORY_LIMIT
  /\ cf_call.ret # <<>>

\* ---- C17
\* C17: the scorer gives a score only when the most recent build attempt
\* completed, and only with a matrix and an id map that the same build
\* assigned.
C17_ScoresOnlyAfterCompletedBuild ==
  (cf_call.called /\ cf_call.ret # <<>>) =>
    /\ cf_call.last_ok
    /\ cf_call.sim_from = cf_call.idmap_from

\* the scorer was called after a build attempt that did not complete
C17_ScoredAfterFailedBuild ==
  /\ cf_call.called
  /\ cf_call.n > 0
  /\ ~cf_call.last_ok

\* ---- C11
\* the ids of a ranked list, in its order
IdSeq(pairs) == [ i \in DOMAIN pairs |-> pairs[i][1] ]

\* C11: the list a post-reorder rule returns holds every item id as many
\* times as the list it was given: no id is added, removed or duplicated.
C11_PostRuleKeepsIds ==
  post_call.rule # "none" =>
    \A id \in Items :
      Occurrences(IdSeq(post_call.ret), id) = Occurrences(IdSeq(post_call.arg), id)

\* a rule changed the order of a list that holds an id twice
C11_ReorderedWithRepeatedId ==
  /\ post_call.rule # "none"
  /\ \E id \in Items : Occurrences(IdSeq(post_call.arg), id) > 1
  /\ IdSeq(post_call.ret) # IdSeq(post_call.arg)

\* ---- C18
\* the weights of the lists that hold the stock code, in tenths
UserStockFactors(ctx, stock_code) ==
  (IF stock_code \in Range(ctx.owned_stocks) THEN {UserStockWeights.owned} ELSE {})
  \cup (IF stock_code \in ctx.recent_stocks_set THEN {UserStockWeights.recent} ELSE {})
  \cup (IF stock_code \in ctx.group1_stocks_set THEN {UserStockWeights.group1} ELSE {})
  \cup (IF stock_code \in ctx.onboarding_stocks_set
         THEN {UserStockWeights.onboarding} ELSE {})

\* the score of the i-th item after the boost of BoostUserStocks
UserStockBoosted(ctx, ranked_items, i) ==
  LET fs == UserStockFactors(ctx, LabelOf(ctx, ranked_items[i][1]))
  IN IF fs = {} THEN ranked_items[i][2]
     ELSE (ranked_items[i][2] * (CHOOSE f \in fs : \A g \in fs : g <= f)) \div 10

\* out holds the pairs of expected, each as many times
SamePairs(out, expected) ==
  /\ Len(out) = Len(expected)
  /\ \A p \in Range(out) \cup Range(expected) : Occurrences(out, p) = Occurrences(expected, p)

\* C18: BoostUserStocks returns the items it was given, the score of an item
\* whose label is in the owned, recent, group1 or onboarding set multiplied
\* once by the largest factor among the sets holding the label (1.5, 1.3,
\* 1.2, 1.1), every other score unchanged.
C18_BoostByLargestFactor ==
  post_call.rule = "BoostUserStocks" =>
    SamePairs(post_call.ret,
              [ i \in DOMAIN post_call.arg |->
                  <<post_call.arg[i][1],
                    UserStockBoosted(post_call.user_context, post_call.arg, i)>> ])

\* an item whose label is in two sets of different factors was boosted next
\* to an item that was not
C18_LabelInTwoSets ==
  /\ post_call.rule = "BoostUserStocks"
  /\ \E i, j \in DOMAIN post_call.arg :
       /\ Cardinality(UserStockFactors(post_call.user_context,
                        LabelOf(post_call.user_context, post_call.arg[i][1]))) > 1
       /\ UserStockFactors(post_call.user_context,
                           LabelOf(post_call.user_context, post_call.arg[j][1])) = {}
  /\ post_call.ret # post_call.arg

\* ---- C19
\* the return of an owned stock: its 1-month return, its 1-day return when
\* it has no 1-month return
StockReturn(ctx, stock) ==
  IF ctx.owned_stock_returns[stock].has1m THEN ctx.owned_stock_returns[stock].v1m
  ELSE ctx.owned_stock_returns[stock].v1d

\* the owned stocks that have a return
RatedStocks(ctx) ==
  { st \in Range(ctx.owned_stocks) :
      /\ st \in DOMAIN ctx.owned_stock_returns
      /\ ctx.owned_stock_returns[st].has1m \/ ctx.owned_stock_returns[st].has1d }

RankedByScoreThenId(pairs) ==
  \A i, j \in DOMAIN pairs :
    i < j => \/ pairs[i][2] > pairs[j][2]
             \/ pairs[i][2] = pairs[j][2] /\ pairs[i][1] < pairs[j][1]

\* the last rule.apply of the request was a post-reorder rule that returned
PostRuleReturned ==
  /\ Len(applied) > Len(PRE_RANKING_RULES)
  /\ ~applied[Len(applied)].raised

\* C12: the list a post-reorder rule of a request returned, and the list the
\* request answers with, are ordered by score non-increasing with items of
\* equal score in ascending id order.
C12_RankedByScoreThenId ==
  /\ PostRuleReturned => RankedByScoreThenId(final_ranked_items)
  /\ rq_pc = "done" => RankedByScoreThenId(response)

\* a request whose candidate record was found answered two items of equal
\* score
C12_AnsweredEqualScores ==
  /\ rq_pc = "done"
  /\ ~NoCandidateRecord
  /\ \E i, j \in DOMAIN response : i # j /\ response[i][2] = response[j][2]

\* ---- C13
\* C13: the answer of a request holds at most RECOMMENDATION_COUNT items, they
\* are the head of the fully ranked list, and no item left out has a higher
\* final score than an item of the answer.
C13_AnswerIsHeadOfRanking ==
  rq_pc = "done" =>
    /\ Len(response) <= RECOMMENDATION_COUNT
    /\ Len(response) <= Len(final_ranked_items)
    /\ Len(final_ranked_items) >= RECOMMENDATION_COUNT => Len(response) = RECOMMENDATION_COUNT
    /\ \A i \in DOMAIN response : response[i] = final_ranked_items[i]
    /\ \A k \in DOMAIN final_ranked_items :
         k > Len(response) => \A i \in DOMAIN response : final_ranked_items[k][2] <= response[i][2]

\* a request ranked more than RECOMMENDATION_COUNT items of different scores
C13_RankingWasCut ==
  /\ rq_pc = "done"
  /\ Len(final_ranked_items) > RECOMMENDATION_COUNT
  /\ response # <<>>
  /\ \E k \in DOMAIN final_ranked_items : final_ranked_items[k][2] < response[1][2]

\* ---- C20
\* C20: a request in which one dependency of the context fetch fails or is
\* unavailable (profile store, interaction-log index, stock lists, quote
\* index) does not end as a request error.
C20_ContextFailureNotSurfaced ==
  rq_in.failed \in {"profile", "seen", "stocks", "quotes", "opensearch"} => rq_pc # "error"

\* a request whose seen-items search failed went on with an empty seen set
\* and answered a ranking
C20_AnsweredAfterFailedFetch ==
  /\ rq_pc = "done"
  /\ rq_in.failed = "seen"
  /\ user_context.seen_items_set = {}
  /\ response # <<>>

C22_CleanupExactlyOnce ==
  (stack = <<>> /\ shutdown.raised = {}) =>
    /\ shutdown.cleanup_runs = 1
    /\ shutdown.connected =>
         /\ mongo_client.closes = 1
         /\ os_client.closes = 1
         /\ oracle_pool.closes = 1

\* C22 witness: a process that was signalled after it had connected has ended
C22_SignalledProcessEnded ==
  /\ stack = <<>>
  /\ shutdown.signals > 0
  /\ shutdown.connected
  /\ shutdown.raised = {}

\* ---- C30
\* C30: when cleanup_resources, called by the finally block of a process no
\* signal was delivered to, has returned, no handle is left open whose own
\* close did not raise.
C30_EveryHandleClosed ==
  (shutdown.signals = 0 /\ stack # <<>> /\ Top(stack) = Frame("main", "log")
     /\ shutdown.cleanup_runs = 1) =>
    /\ "mongo" \notin shutdown.raised => ~mongo_client.open
    /\ ~os_client.open
    /\ "oracle" \notin shutdown.raised => ~oracle_pool.open

\* C30 witness: cleanup_resources has returned after one of its closes raised
C30_ReturnedAfterFailedClose ==
  /\ shutdown.signals = 0
  /\ stack # <<>>
  /\ Top(stack) = Frame("main", "log")
  /\ shutdown.cleanup_runs = 1
  /\ shutdown.raised # {}

\* ---- C23
\* C23: while no caller is cancelled, a reply future is completed with a
\* result for its own user_id or, when the processing of its own entry
\* failed, with that failure: a failure while processing one entry of a
\* drained batch never fails the future of another entry.
C23_EntriesIndependent ==
  (\A r \in DOMAIN futures : ~futures[r].cancelled) =>
    \A r \in DOMAIN futures :
      /\ futures[r].state = "result" => futures[r].value = futures[r].user_id
      /\ futures[r].state = "exception" => futures[r].failed # "none"

\* C23 witness: a batch of two entries went through the ranking step, one
\* of them failing in it, with no caller cancelled
C23_BatchOfTwoRanked ==
  /\ dispatcher.pc = "sleep"
  /\ Len(dispatcher.kept) = 2
  /\ \E r \in DOMAIN futures : futures[r].failed = "rank"
  /\ \A r \in DOMAIN futures : ~futures[r].cancelled

\* ---- C24
\* C24: when the only entries whose processing fails are those of cancelled
\* callers, the dispatcher keeps running and no other reply future is failed.
C24_CancellationIsolated ==
  (\A r \in DOMAIN futures : futures[r].failed # "none" => futures[r].cancelled) =>
    /\ dispatcher.pc # "dead"
    /\ \A r \in DOMAIN futures : ~futures[r].cancelled => futures[r].state # "exception"

\* C24 witness: a caller was cancelled while its entry was in the batch being
\* processed, and the dispatcher has gone through that batch
C24_CancelledInBatch ==
  /\ dispatcher.pc \in {"sleep", "dead"}
  /\ \E r \in Range(dispatcher.current_batch) : futures[r].cancelled
  /\ \E r \in Range(dispatcher.current_batch) : ~futures[r].cancelled

\* ---- C25
\* C25: over any sequence of save_results calls user_candidate holds at most
\* one record per cust_no; a save that returns True leaves, for every record
\* it validated, the record's curation_list and the time of the save as
\* modi_dt; create_dt is the time of the save that inserted the record and no
\* later save changes it.
C25_OneRecordPerCustNo ==
  \A d, e \in user_candidate : d.cust_no = e.cust_no => d = e

C25_SaveStep ==
  /\ \A d \in user_candidate : \A e \in user_candidate' :
       e.cust_no = d.cust_no => e.create_dt = d.create_dt
  /\ \A e \in user_candidate' :
       (\A d \in user_candidate : d.cust_no # e.cust_no) =>
          e.create_dt = clock /\ e.modi_dt = clock
  /\ (clock' # clock /\ save_ret' = "True") =>
       LET validated == validate_candidate_results(final_results_to_save')
       IN \A k \in DOMAIN validated :
            \E e \in user_candidate' :
              /\ e.cust_no = validated[k].cust_no
              /\ e.curation_list = validated[k].curation_list
              /\ e.modi_dt = clock

C25_UpsertKeepsCreateDt == [](C25_OneRecordPerCustNo) /\ [][C25_SaveStep]_vars

\* C25 witness: a record inserted by one save was written again by a later
\* one
C25_RecordSavedTwice ==
  \E d \in user_candidate : d.modi_dt > d.create_dt

\* ---- C26
\* C26: applying a batch rule leaves its inputs as they were: the entries of
\* contents_list and the fetched stock records have, after the apply, the
\* fields and values they had before it.
C26_RuleLeavesInputs ==
  /\ rule_effect.contents_after = rule_effect.contents_before
  /\ rule_effect.stocks_after = rule_effect.stocks_before

\* C26 witness: a batch rule was applied to a context with contents and
\* returned candidates
C26_RuleApplied ==
  /\ rule_effect.rule # "none"
  /\ rule_effect.contents_before # <<>>
  /\ rule_effect.ret # <<>>

\* ---- C27
\* C27: get_anonymous_recommendations returns the first
\* min(RECOMMENDATION_COUNT, n) elements of a permutation of the n stored
\* ids and leaves the stored list as it is; when the document is missing or
\* malformed, or the read fails, the store not being reachable included, it
\* returns the empty list.
C27_ReadSucceeded ==
  /\ anonymous_call.connected
  /\ ~anonymous_call.read_fails
  /\ anonymous_call.doc.kind = "list"

C27_HeadOfPermutation ==
  LET stored == anonymous_call.doc.curation_ids
      ret == anonymous_call.ret
  IN /\ Len(ret) = Min(RECOMMENDATION_COUNT, Len(stored))
     /\ \E order \in Orders(DOMAIN stored) : \A i \in DOMAIN ret : ret[i] = stored[order[i]]

C27_AnonymousRecommendations ==
  anonymous_call.called =>
    /\ ~anonymous_call.raised
    /\ anonymous_call.doc_after = anonymous_call.doc
    /\ IF C27_ReadSucceeded THEN C27_HeadOfPermutation ELSE anonymous_call.ret = <<>>

\* C27 witness: more ids are stored than are returned, one of them twice
C27_StoredListWasCut ==
  /\ anonymous_call.called
  /\ C27_ReadSucceeded
  /\ Len(anonymous_call.doc.curation_ids) > RECOMMENDATION_COUNT
  /\ Len(anonymous_call.ret) = RECOMMENDATION_COUNT
  /\ \E i, j \in DOMAIN anonymous_call.doc.curation_ids :
       i # j /\ anonymous_call.doc.curation_ids[i] = anonymous_call.doc.curation_ids[j]

\* ---- C28
\* C28: when a post-reorder rule returns a list whose length differs from
\* the list it was given, the request ends in an internal fault; the engine
\* does not go on with the shortened or lengthened list.
C28_LengthBroken ==
  \E i \in DOMAIN post_lengths : post_lengths[i][1] # post_lengths[i][2]

C28_LengthFaultSurfaced ==
  C28_LengthBroken => rq_pc = "error"

\* C28 witness: a request was answered from a list a post-reorder rule had
\* shortened
C28_AnsweredWithShortenedList ==
  /\ rq_pc = "done"
  /\ \E i \in DOMAIN post_lengths : post_lengths[i][2] < post_lengths[i][1]
  /\ Len(final_ranked_items) < Len(candidates_after_pre_rules)
  /\ response # <<>>

\* ---- C29
\* C29: every record generate_candidate_for_user emits with at least one
\* scored candidate is accepted by validate_candidate_results and reaches
\* the upsert of save_results: the persist step drops no non-empty record
\* because of the type of its cust_no or the shape of its curation_list.
C29_NonEmptyRecordEmitted ==
  /\ result_doc.shape # "pending"
  /\ ~result_doc.raised
  /\ result_doc.curation_list # <<>>

\* a store that is reachable and takes every write
C29_WorkingStore ==
  { env \in SaveEnvs(1) :
      ~env.pre_fail /\ env.partial = {} /\ \A b \in DOMAIN env.fails : env.fails[b] = 0 }

C29_EmittedRecordReachesUpsert ==
  C29_NonEmptyRecordEmitted =>
    /\ validate_candidate_results(<<result_doc>>) # <<>>
    /\ \A env \in C29_WorkingStore :
         \E d \in save_results(<<result_doc>>, user_candidate, fallback_file, env, clock).coll :
           d.cust_no = result_doc.cust_no

\* C29 witness: a record with a scored candidate was emitted for a user
\* whose id converts, and save_results given this record alone returns False
C29_EmittedRecordRefused ==
  /\ C29_NonEmptyRecordEmitted
  /\ result_doc.cust_no # NoVal
  /\ \A env \in C29_WorkingStore :
       save_results(<<result_doc>>, user_candidate, fallback_file, env, clock).ret = "False"

====
